---- MODULE Spec2Model ----
(***************************************************************************)
(* Thumb-Game: the entity state machine (PlayerModule, playerModule.js)    *)
(* and the peer synchronisation manager (MultiplayerManager,               *)
(* multiplayer.js), the PlayerRegistry and the relay server (server.js),   *)
(* modelled as state machines.                                             *)
(*                                                                         *)
(* JavaScript objects are functions from field names to values; a field    *)
(* that is `undefined` is a name outside the DOMAIN.  Date.now() is the    *)
(* variable `now`, advanced by the calls that read it.                      *)
(***************************************************************************)
EXTENDS Integers, Sequences, FiniteSets, TLC

VARIABLES
    now,        \* Date.now()
    pm,         \* the fields of one PlayerModule
    pc,         \* where the PlayerModule's caller is: "idle", "addExp" (at the loop test), "levelUp" (in its body)
    pmOp,       \* the last PlayerModule method called: [name, state]
    onlyDH,     \* history: only takeDamage / heal were called since construction
    env,        \* what the page gives the MultiplayerManager: options, hostname, browser
    mgr,        \* the fields of one MultiplayerManager, its socket and its timers
    mgrOp,      \* the last handler or method of the manager that ran: [name, type, id, payload]
    reg,        \* one PlayerRegistry: its players map, and the last method called on it
    srv,        \* the relay server (server.js): its players map, its connections, its clock
    tabs        \* the managers of the browser tabs on one BroadcastChannel, and their inboxes

pmVars == <<pm, pc, pmOp, onlyDH>>
mgrVars == <<env, mgr, mgrOp>>
regVars == <<reg>>
srvVars == <<srv>>
tabVars == <<tabs>>
outsidePm == <<mgrVars, regVars, srvVars, tabVars>>
outsideMgr == <<pmVars, regVars, srvVars, tabVars>>
vars == <<now, pmVars, mgrVars, regVars, srvVars, tabVars>>

\* ---------------------------------------------------------------- bounds
MaxTime == 1        \* the clock stops advancing here
MaxLevelUps == 1    \* addExp is not called on an entity that has levelled up this many times
MaxSafeLevel == 8   \* level++ leaves level as it is from here on, as it does at 2^53 in the code
MaxListeners == 2   \* on() is not called for an event that has this many handlers

\* ---------------------------------------------------------------- objects
Has(o, f) == f \in DOMAIN o
EmptyObj == [f \in {} |-> 0]
\* Object.assign(a, b) / {...a, ...b}: b's fields win
Merge(a, b) == [f \in (DOMAIN a) \cup (DOMAIN b) |-> IF f \in DOMAIN b THEN b[f] ELSE a[f]]
\* config.f || d for a numeric option: undefined and 0 are falsy
OrNum(c, f, d) == IF Has(c, f) /\ c[f] # 0 THEN c[f] ELSE d
\* config.f || false for a boolean option
OrBool(c, f) == Has(c, f) /\ c[f]

Min(a, b) == IF a <= b THEN a ELSE b

\* ---------------------------------------------------------------- numbers
\* The Number value Infinity: above every finite value of the model, and
\* absorbing under + and - of a finite value.
Infinity == 1000000
JsAdd(a, b) == IF a = Infinity \/ b = Infinity THEN Infinity ELSE a + b
JsSub(a, b) == IF a = Infinity THEN Infinity ELSE a - b
\* n++ on a Number: exact below the largest safe integer, no change at it
Incr(n) == IF n >= MaxSafeLevel THEN n ELSE n + 1

\* ---------------------------------------------------------------- clock
\* The instants at which the next call can happen: time passes between calls
Times == now..MaxTime

\* ================================================================ PlayerModule
\* attackDamage *= 1.5 is kept exact: the value is base * (3/2)^ups
NewPlayerModule(config, t) ==
    [ isLocal        |-> OrBool(config, "isLocal"),
      hasSprite      |-> FALSE,
      radius         |-> OrNum(config, "radius", 30),
      x              |-> OrNum(config, "x", 0),
      y              |-> OrNum(config, "y", 0),
      hp             |-> OrNum(config, "hp", 100),
      maxHP          |-> OrNum(config, "maxHP", 100),
      level          |-> OrNum(config, "level", 1),
      exp            |-> OrNum(config, "exp", 0),
      nextLevelExp   |-> OrNum(config, "nextLevelExp", 50),
      attackCooldown |-> 0,
      attackRate     |-> OrNum(config, "attackRate", 60),
      attackDamage   |-> [base |-> OrNum(config, "attackDamage", 10), ups |-> 0],
      attackRange    |-> OrNum(config, "attackRange", 300),
      isDead         |-> FALSE,
      isActive       |-> TRUE,
      shockTimer     |-> 0,
      deathAnimTimer |-> 0,
      createdAt      |-> t,
      lastUpdated    |-> t ]

\* die()
Die(p, t) ==
    [p EXCEPT !.isDead = TRUE, !.isActive = FALSE, !.deathAnimTimer = 0, !.lastUpdated = t]

\* takeDamage(amount)
TakeDamage(p, amount, t) ==
    IF p.isDead THEN p
    ELSE LET h == p.hp - amount IN
         IF h <= 0
         THEN [Die([p EXCEPT !.hp = 0], t) EXCEPT !.lastUpdated = t]
         ELSE [p EXCEPT !.hp = h, !.shockTimer = 18, !.lastUpdated = t]

\* a heal without the isDead guard, which brings a dead entity back (C2 rests on the guard)
HealRevives(p, amount, t) ==
    [p EXCEPT !.hp = Min(p.hp + amount, p.maxHP),
              !.isDead = (Min(p.hp + amount, p.maxHP) <= 0),
              !.lastUpdated = t]

\* heal(amount)
Heal(p, amount, t) ==
    IF p.isDead THEN p
    ELSE [p EXCEPT !.hp = Min(p.hp + amount, p.maxHP), !.lastUpdated = t]

\* a levelUp that raises maxHP and leaves hp where it was (C32 rests on hp = maxHP)
LevelUpKeepsHp(p, t) ==
    LET l == Incr(p.level) IN
    [p EXCEPT !.level = l,
              !.exp = JsSub(p.exp, p.nextLevelExp),
              !.nextLevelExp = 50 * l,
              !.attackDamage = [base |-> p.attackDamage.base, ups |-> Incr(p.attackDamage.ups)],
              !.maxHP = 100 + (20 * (l - 1)),
              !.lastUpdated = t]

\* a levelUp that leaves the threshold of the next level where it was (C22
\* rests on the new threshold)
LevelUpSameThreshold(p, t) ==
    LET l == Incr(p.level) IN
    [p EXCEPT !.level = l,
              !.exp = JsSub(p.exp, p.nextLevelExp),
              !.attackDamage = [base |-> p.attackDamage.base, ups |-> Incr(p.attackDamage.ups)],
              !.maxHP = 100 + (20 * (l - 1)),
              !.hp = 100 + (20 * (l - 1)),
              !.lastUpdated = t]

\* levelUp(); Math.floor of an integer is the integer.  attackDamage *= 1.5
\* overflows to Infinity long before level stops growing, and stays there.
LevelUp(p, t) ==
    LET l == Incr(p.level) IN
    [p EXCEPT !.level = l,
              !.exp = JsSub(p.exp, p.nextLevelExp),
              !.nextLevelExp = 50 * l,
              !.attackDamage = [base |-> p.attackDamage.base, ups |-> Incr(p.attackDamage.ups)],
              !.maxHP = 100 + (20 * (l - 1)),
              !.hp = 100 + (20 * (l - 1)),
              !.lastUpdated = t]

\* update(deltaTime)
Update(p) ==
    IF ~p.hasSprite \/ p.isDead THEN p
    ELSE [p EXCEPT !.attackCooldown = IF @ > 0 THEN @ - 1 ELSE @,
                   !.shockTimer = IF @ > 0 THEN @ - 1 ELSE @]

\* a setState that resets x, y and isDead when the partial omits them (C4 rests on the guards)
SetStateResetsOmitted(p, state, t) ==
    [p EXCEPT !.x = IF Has(state, "x") THEN state.x ELSE 0,
              !.y = IF Has(state, "y") THEN state.y ELSE 0,
              !.hp = IF Has(state, "hp") THEN state.hp ELSE @,
              !.maxHP = IF Has(state, "maxHp") THEN state.maxHp ELSE @,
              !.level = IF Has(state, "level") THEN state.level ELSE @,
              !.exp = IF Has(state, "exp") THEN state.exp ELSE @,
              !.nextLevelExp = IF Has(state, "nextLevelExp") THEN state.nextLevelExp ELSE @,
              !.attackDamage = IF Has(state, "attackDamage")
                               THEN [base |-> state.attackDamage, ups |-> 0] ELSE @,
              !.isDead = IF Has(state, "isDead") THEN state.isDead ELSE FALSE,
              !.isActive = IF Has(state, "isActive") THEN state.isActive ELSE @,
              !.lastUpdated = t]

\* setState(state)
SetState(p, state, t) ==
    [p EXCEPT !.x = IF Has(state, "x") THEN state.x ELSE @,
              !.y = IF Has(state, "y") THEN state.y ELSE @,
              !.hp = IF Has(state, "hp") THEN state.hp ELSE @,
              !.maxHP = IF Has(state, "maxHp") THEN state.maxHp ELSE @,
              !.level = IF Has(state, "level") THEN state.level ELSE @,
              !.exp = IF Has(state, "exp") THEN state.exp ELSE @,
              !.nextLevelExp = IF Has(state, "nextLevelExp") THEN state.nextLevelExp ELSE @,
              !.attackDamage = IF Has(state, "attackDamage")
                               THEN [base |-> state.attackDamage, ups |-> 0] ELSE @,
              !.isDead = IF Has(state, "isDead") THEN state.isDead ELSE @,
              !.isActive = IF Has(state, "isActive") THEN state.isActive ELSE @,
              !.lastUpdated = t]

\* The Number attackDamage holds, base * 1.5^ups; it is base itself for an
\* entity that has not levelled up.
AttackDamageValue(ad) == (ad.base * (3 ^ ad.ups)) \div (2 ^ ad.ups)

\* Math.sqrt(dx * dx + dy * dy) <= this.attackRange, for a range >= 0
InRange(p, target) ==
    LET dx == target.x - p.x
        dy == target.y - p.y
    IN (dx * dx) + (dy * dy) <= p.attackRange * p.attackRange

\* an autoAttack that forgets to start the cooldown (C20 rests on the assignment)
AutoAttackNoCooldown(p, target, t) ==
    IF p.isDead \/ p.hp <= 0 THEN [self |-> p, target |-> target, result |-> FALSE]
    ELSE IF p.attackCooldown > 0 THEN [self |-> p, target |-> target, result |-> FALSE]
    ELSE IF InRange(p, target)
         THEN [ self |-> [p EXCEPT !.lastUpdated = t],
                target |-> TakeDamage(target, AttackDamageValue(p.attackDamage), t),
                result |-> TRUE ]
         ELSE [self |-> p, target |-> target, result |-> FALSE]

\* autoAttack(target): both entities after the call, and the value returned
AutoAttack(p, target, t) ==
    IF p.isDead \/ p.hp <= 0 THEN [self |-> p, target |-> target, result |-> FALSE]
    ELSE IF p.attackCooldown > 0 THEN [self |-> p, target |-> target, result |-> FALSE]
    ELSE IF InRange(p, target)
         THEN [ self |-> [p EXCEPT !.attackCooldown = p.attackRate, !.lastUpdated = t],
                target |-> TakeDamage(target, AttackDamageValue(p.attackDamage), t),
                result |-> TRUE ]
         ELSE [self |-> p, target |-> target, result |-> FALSE]

\* x, y and radius of a PlayerModule are whole pixels. resolveCollision moves
\* the centres by fractions of a pixel, so the geometry of a collision is
\* computed in hundredths of a pixel.
Hundredths == 100

\* Math.sqrt of a perfect square
Sqrt(n) == CHOOSE r \in 0..n : r * r = n

\* the distance of the two centres, in pixels (const dist of checkCollision
\* and of resolveCollision)
Dist(p, other) ==
    LET dx == other.x - p.x
        dy == other.y - p.y
    IN Sqrt((dx * dx) + (dy * dy))

\* checkCollision(other)
CheckCollision(p, other) == Dist(p, other) < p.radius + other.radius

\* the centre of an entity, in hundredths of a pixel
Centre(p) == [x |-> p.x * Hundredths, y |-> p.y * Hundredths]

\* nx * overlap * pushForce (or ny * ...), in hundredths of a pixel, where
\* nx = d / dist and pushForce = pf.num / pf.den; halve = 2 for the branch
\* that moves both entities by overlap / 2
Push(d, dist, overlap, pf, halve) ==
    (d * overlap * pf.num * Hundredths) \div (dist * pf.den * halve)

\* resolveCollision(other, pushForce): the centres of this and of other
\* after the call
ResolveCollision(p, other, pf) ==
    LET dx == other.x - p.x
        dy == other.y - p.y
        dist == Dist(p, other)
        minDist == p.radius + other.radius
        overlap == minDist - dist
        c == Centre(p)
        o == Centre(other)
    IN IF dist < minDist /\ dist > 0
       THEN IF p.isLocal
            THEN [ self |-> c,
                   other |-> [x |-> o.x + Push(dx, dist, overlap, pf, 1),
                              y |-> o.y + Push(dy, dist, overlap, pf, 1)] ]
            ELSE IF other.isLocal
            THEN [ self |-> [x |-> c.x - Push(dx, dist, overlap, pf, 1),
                             y |-> c.y - Push(dy, dist, overlap, pf, 1)],
                   other |-> o ]
            ELSE [ self |-> [x |-> c.x - Push(dx, dist, overlap, pf, 2),
                             y |-> c.y - Push(dy, dist, overlap, pf, 2)],
                   other |-> [x |-> o.x + Push(dx, dist, overlap, pf, 2),
                              y |-> o.y + Push(dy, dist, overlap, pf, 2)] ]
       ELSE [self |-> c, other |-> o]

\* ---------------------------------------------------------------- inputs
\* Constructor configs: the default, and the playerData a joining peer's
\* record carries (handleRemotePlayerAdded spreads it into the config; it
\* names the maximum `maxHp`, which the constructor does not read).
Configs ==
    { EmptyObj,
      [x |-> 0, y |-> 0, hp |-> 100, maxHp |-> 100, level |-> 1, exp |-> 0, isLocal |-> FALSE],
      [x |-> 5, y |-> 0, hp |-> 120, maxHp |-> 120, level |-> 2, exp |-> 20, isLocal |-> FALSE] }

DamageAmounts == {0, 40}
HealAmounts == {0, 40}
ExpAmounts == {0, 50, 120, Infinity}

\* Partial states given to setState: sparse objects, and the state record
\* the game publishes each frame (x, y, hp, maxHp, level, exp, isDead).
PartialStates ==
    { EmptyObj,
      [hp |-> 40],
      [isDead |-> FALSE],
      [nextLevelExp |-> 0],
      [x |-> 5, y |-> 0, hp |-> 0, maxHp |-> 100, level |-> 1, exp |-> 20, isDead |-> TRUE] }

Op(n, s) == [name |-> n, state |-> s]

\* ---------------------------------------------------------------- actions
InitPlayer ==
    /\ \E c \in Configs : pm = NewPlayerModule(c, 0)
    /\ pc = "idle"
    /\ pmOp = Op("constructor", EmptyObj)
    /\ onlyDH = TRUE

\* create(): the scene gives the entity a sprite
CreateSprite ==
    /\ pc = "idle"
    /\ ~pm.hasSprite
    /\ pm' = [pm EXCEPT !.hasSprite = TRUE]
    /\ pmOp' = Op("create", EmptyObj)
    /\ onlyDH' = FALSE
    /\ UNCHANGED <<pc, now>>
    /\ UNCHANGED outsidePm

DoTakeDamage ==
    /\ pc = "idle"
    /\ \E a \in DamageAmounts, t \in Times :
        /\ now' = t
        /\ pm' = TakeDamage(pm, a, t)
    /\ pmOp' = Op("takeDamage", EmptyObj)
    /\ UNCHANGED <<pc, onlyDH>>
    /\ UNCHANGED outsidePm

DoHeal ==
    /\ pc = "idle"
    /\ \E a \in HealAmounts, t \in Times :
        /\ now' = t
        /\ pm' = Heal(pm, a, t)
    /\ pmOp' = Op("heal", EmptyObj)
    /\ UNCHANGED <<pc, onlyDH>>
    /\ UNCHANGED outsidePm

DoUpdate ==
    /\ pc = "idle"
    /\ pm' = Update(pm)
    /\ pmOp' = Op("update", EmptyObj)
    /\ onlyDH' = FALSE
    /\ UNCHANGED <<pc, now>>
    /\ UNCHANGED outsidePm

DoSetState ==
    /\ pc = "idle"
    /\ \E s \in PartialStates, t \in Times :
        /\ now' = t
        /\ pm' = SetState(pm, s, t)
        /\ pmOp' = Op("setState", s)
    /\ onlyDH' = FALSE
    /\ UNCHANGED pc
    /\ UNCHANGED outsidePm

\* Records that arrive from a peer: the state MainScene.update publishes
\* after its per-frame damage (hp -= 0.7 while hp > 0, never clamped) has
\* taken hp below zero, and objects of a client that sends what it likes.
PeerStates ==
    { [x |-> 5, y |-> 0, hp |-> -1, maxHp |-> 100, level |-> 1, exp |-> 20, isDead |-> TRUE],
      [x |-> 5, y |-> 0, hp |-> 120, maxHp |-> 120, level |-> 2, exp |-> 20, isDead |-> FALSE],
      [hp |-> 150],
      [maxHp |-> 50] }

\* MainScene.handleRemotePlayerUpdated(data): remotePlayer.setState(data.player)
HandleRemotePlayerUpdated ==
    /\ pc = "idle"
    /\ \E s \in PeerStates, t \in Times :
        /\ now' = t
        /\ pm' = SetState(pm, s, t)
        /\ pmOp' = Op("setState", s)
    /\ onlyDH' = FALSE
    /\ UNCHANGED pc
    /\ UNCHANGED outsidePm

\* addExp(amount): the statements before the loop
AddExpCall ==
    /\ pc = "idle"
    /\ pm.attackDamage.ups < MaxLevelUps
    /\ \E a \in ExpAmounts, t \in Times :
        /\ now' = t
        /\ pm' = [pm EXCEPT !.exp = JsAdd(@, a), !.lastUpdated = t]
        /\ pmOp' = Op("addExp", [ amount |-> a, level |-> pm.level, exp |-> pm.exp,
                                  nextLevelExp |-> pm.nextLevelExp ])
    /\ pc' = "addExp"
    /\ onlyDH' = FALSE
    /\ UNCHANGED outsidePm

\* addExp: while (exp >= nextLevelExp) holds, the body is entered
AddExpLoop ==
    /\ pc = "addExp"
    /\ pm.exp >= pm.nextLevelExp
    /\ pc' = "levelUp"
    /\ UNCHANGED <<pm, pmOp, onlyDH, now>>
    /\ UNCHANGED outsidePm

\* addExp: the body of the loop, this.levelUp(), then back to the test
AddExpLevelUp ==
    /\ pc = "levelUp"
    /\ \E t \in Times :
        /\ now' = t
        /\ pm' = LevelUp(pm, t)
    /\ pc' = "addExp"
    /\ UNCHANGED <<pmOp, onlyDH>>
    /\ UNCHANGED outsidePm

\* addExp: the loop condition is false, the method returns
AddExpReturn ==
    /\ pc = "addExp"
    /\ ~(pm.exp >= pm.nextLevelExp)
    /\ pc' = "idle"
    /\ UNCHANGED <<pm, pmOp, onlyDH, now>>
    /\ UNCHANGED outsidePm

\* ---------------------------------------------------------------- combat between two entities
\* Attackers: one with the default damage and position, one that hits hard
\* from beside the origin; both with a short attackRate
DuelConfigs ==
    { [attackRate |-> 3],
      [x |-> 5, y |-> 0, attackDamage |-> 40, attackRate |-> 2] }

\* Targets of autoAttack, each as the constructor and takeDamage leave it:
\* fresh at the origin, at 300 from the origin, out of reach, nearly dead,
\* and dead within reach.
Targets ==
    { NewPlayerModule(EmptyObj, 0),
      NewPlayerModule([x |-> 180, y |-> 240], 0),
      NewPlayerModule([x |-> 400, y |-> 0], 0),
      NewPlayerModule([hp |-> 5], 0),
      TakeDamage(NewPlayerModule(EmptyObj, 0), 100, 0) }

InitAttacker ==
    /\ \E c \in DuelConfigs : pm = NewPlayerModule(c, 0)
    /\ pc = "idle"
    /\ pmOp = Op("constructor", EmptyObj)
    /\ onlyDH = TRUE

\* autoAttack(target): pmOp keeps the target before and after, and the result
DoAutoAttack ==
    /\ pc = "idle"
    /\ \E target \in Targets, t \in Times :
        LET r == AutoAttack(pm, target, t)
        IN /\ now' = IF r.result THEN t ELSE now
           /\ pm' = r.self
           /\ pmOp' = Op("autoAttack",
                         [target |-> target, after |-> r.target, result |-> r.result])
    /\ onlyDH' = FALSE
    /\ UNCHANGED pc
    /\ UNCHANGED outsidePm

\* ---------------------------------------------------------------- collisions
\* this: at the origin, local or remote, with the default radius or a smaller one
CollisionConfigs ==
    { [isLocal |-> l, radius |-> r] : l \in BOOLEAN, r \in {30, 20} }

\* other: at an exact distance of 0, 50, 60 or 100 from the origin, along an
\* axis or along a 3-4-5 or 7-24-25 direction
OtherCentres ==
    { <<50, 0>>, <<30, 40>>, <<48, 14>>, <<-40, -30>>, <<0, -50>>,
      <<0, 0>>, <<60, 0>>, <<100, 0>> }

Others ==
    { NewPlayerModule([x |-> c[1], y |-> c[2], isLocal |-> l, radius |-> r], 0) :
        c \in OtherCentres, l \in BOOLEAN, r \in {30, 20} }

\* pushForce: the default 0.5, and 1
DefaultPushForce == [num |-> 1, den |-> 2]
PushForces == { DefaultPushForce, [num |-> 1, den |-> 1] }

InitCollider ==
    /\ \E c \in CollisionConfigs : pm = NewPlayerModule(c, 0)
    /\ pc = "idle"
    /\ pmOp = Op("constructor", EmptyObj)
    /\ onlyDH = TRUE

\* checkCollision(other) followed by resolveCollision(other, pushForce) on
\* the entity as constructed: pmOp keeps other, the result of checkCollision
\* and both centres after resolveCollision
DoResolveCollision ==
    /\ pc = "idle"
    /\ \E other \in Others, pf \in PushForces :
        pmOp' = Op("resolveCollision",
                   [ other |-> other, pushForce |-> pf,
                     collides |-> CheckCollision(pm, other),
                     after |-> ResolveCollision(pm, other, pf) ])
    /\ onlyDH' = FALSE
    /\ UNCHANGED <<now, pm, pc>>
    /\ UNCHANGED outsidePm

\* ================================================================ MultiplayerManager
PlayerId == "me"            \* this.playerId, the token generateUniqueId() returned
RemoteIds == {"p1"}         \* ids of the other peers
AllIds == {PlayerId} \cup RemoteIds
MaxReconnectAttempts == 5
Palette == {"4CAF50"}       \* generatePlayerColor(): one colour stands for the eight
LocalHosts == {"localhost", "127.0.0.1"}

\* Map.set / Map.delete on this.players
PSet(ps, id, v) == [k \in (DOMAIN ps) \cup {id} |-> IF k = id THEN v ELSE ps[k]]
PDel(ps, id) == [k \in (DOMAIN ps) \ {id} |-> ps[k]]

\* a getWebSocketUrl that detects a relay on every host (C9 rests on the hostname test)
GetWebSocketUrlAlways(e) ==
    IF e.optWsUrl THEN "custom" ELSE "ws://host:8080"

\* getWebSocketUrl(options)
GetWebSocketUrl(e) ==
    IF e.optWsUrl THEN "custom"
    ELSE IF e.hostname \in LocalHosts THEN "ws://host:8080"
    ELSE "null"

\* off(event, callback): splice out the first occurrence, if any
Off(m, ev, cb) ==
    IF ev \notin DOMAIN m.listeners THEN m
    ELSE LET l == m.listeners[ev]
             at == { i \in 1..Len(l) : l[i] = cb }
         IN IF at = {} THEN m
            ELSE LET k == CHOOSE i \in at : \A j \in at : i <= j
                 IN [m EXCEPT !.listeners[ev] =
                        SubSeq(l, 1, k - 1) \o SubSeq(l, k + 1, Len(l))]

\* on(event, callback): create the list on first use, then push
On(m, ev, cb) ==
    [m EXCEPT !.listeners =
        PSet(@, ev, Append(IF ev \in DOMAIN @ THEN @[ev] ELSE <<>>, cb))]

\* What a handler does when called.  "log" returns, "boom" throws, "once"
\* unsubscribes itself with off(event, itself) and returns.
Callbacks == {"log", "boom", "once"}
Throws(cb) == cb = "boom"
RunCallback(m, ev, cb) == IF cb = "once" THEN Off(m, ev, cb) ELSE m

\* listeners.get(event).forEach(callback => { try { callback(data) } catch ... }):
\* forEach visits the indices below the length the array had when it started,
\* reading the array as it is at each visit; try/catch swallows what a
\* handler throws.  `called` is the handlers invoked, in order.
RECURSIVE ForEachListener(_, _, _, _)
ForEachListener(m, ev, i, len) ==
    IF i > len \/ i > Len(m.listeners[ev]) THEN m
    ELSE LET cb == m.listeners[ev][i]
             m1 == [m EXCEPT !.called = Append(@, cb)]
             m2 == IF Throws(cb) THEN m1 ELSE RunCallback(m1, ev, cb)
         IN ForEachListener(m2, ev, i + 1, len)

\* emit(event, data); `emitted` is the events of the running handler, in order
Emit(m, ev, id) ==
    LET m1 == [m EXCEPT !.emitted = Append(@, [event |-> ev, id |-> id]),
                        !.called = <<>>]
    IN IF ev \notin DOMAIN m1.listeners THEN m1
       ELSE ForEachListener(m1, ev, 1, Len(m1.listeners[ev]))

\* ws.send(JSON.stringify(...))
SendWs(m, type) == [m EXCEPT !.sent = Append(@, [via |-> "ws", type |-> type])]

\* sendBroadcastMessage(type, data)
SendBroadcastMessage(m, type) ==
    IF ~m.bc THEN m
    ELSE [m EXCEPT !.sent = Append(@, [via |-> "bc", type |-> type])]

\* this.connected && this.ws && this.ws.readyState === WebSocket.OPEN
CanSendWs(m) == m.connected /\ m.ws /\ m.sock = "open"

\* setupBroadcastChannel()
SetupBroadcastChannel(m, e) ==
    IF ~m.useLocalBroadcast THEN m
    ELSE IF e.bcSupported THEN [m EXCEPT !.bc = TRUE]
    ELSE m

\* setupWebSocket(): new WebSocket(url) throws on a URL it cannot parse
SetupWebSocket(m, e) ==
    IF m.wsUrl = "null" THEN SetupBroadcastChannel(m, e)
    ELSE IF m.wsUrl = "custom" /\ ~e.urlOk
         THEN SetupBroadcastChannel([m EXCEPT !.wsAttempted = TRUE], e)
    ELSE [m EXCEPT !.ws = TRUE, !.sock = "connecting", !.wsAttempted = TRUE,
                   !.unopened = IF m.everOpened THEN @ ELSE @ + 1]

\* constructor(options)
NewManager(e) ==
    LET url == IF e.optWsUrl THEN "custom" ELSE GetWebSocketUrl(e)
        m == [ playerId          |-> PlayerId,
               players           |-> EmptyObj,
               wsUrl             |-> url,
               ws                |-> FALSE,       \* this.ws is not null
               sock              |-> "none",      \* readyState of the latest WebSocket
               connected         |-> FALSE,
               reconnectAttempts |-> 0,
               timer             |-> FALSE,       \* a reconnect setTimeout is pending
               bc                |-> FALSE,       \* this.broadcastChannel is not null
               useLocalBroadcast |-> e.useLocalBroadcast,
               useWebSocket      |-> e.useWebSocket /\ url # "null",
               heartbeat         |-> FALSE,       \* this.heartbeatInterval is not null
               listeners         |-> EmptyObj,    \* this.listeners: event -> callbacks
               emitted           |-> <<>>,
               sent              |-> <<>>,
               called            |-> <<>>,        \* history: handlers the latest emit invoked
               \* history
               inited            |-> FALSE,
               initResult        |-> "none",
               disconnected      |-> FALSE,
               inbound           |-> FALSE,       \* an inbound message was processed after init()
               wsAttempted       |-> FALSE,       \* new WebSocket was called
               everOpened        |-> FALSE,       \* a WebSocket reached the open state
               unopened          |-> 0,           \* WebSockets created while none had opened
               fellBack          |-> FALSE ]      \* onclose gave up on the relay
    IN IF m.useWebSocket /\ m.wsUrl # "null"
       THEN SetupWebSocket(m, e)
       ELSE SetupBroadcastChannel(m, e)

\* registerLocalPlayer()
RegisterLocalPlayer(m, color, t) ==
    [m EXCEPT !.players = PSet(@, m.playerId,
        [ id |-> m.playerId, name |-> "local", isLocal |-> TRUE, x |-> 0, y |-> 0,
          hp |-> 100, maxHp |-> 100, level |-> 1, exp |-> 0, color |-> color,
          lastUpdate |-> t, isAlive |-> TRUE ])]

\* broadcastPlayerJoined()
BroadcastPlayerJoined(m) ==
    LET m1 == Emit(m, "playerJoined", m.playerId)
    IN IF CanSendWs(m1) THEN SendWs(m1, "playerJoined")
       ELSE SendBroadcastMessage(m1, "playerJoined")

\* an updateLocalPlayer that replaces the entry instead of merging into it (C10 rests on the merge)
UpdateLocalPlayerReplaces(m, state, t) ==
    IF m.playerId \in DOMAIN m.players
    THEN Emit([m EXCEPT !.players = PSet(@, m.playerId, Merge(state, [lastUpdate |-> t]))],
              "localPlayerUpdated", m.playerId)
    ELSE m

\* updateLocalPlayer(state)
UpdateLocalPlayer(m, state, t) ==
    IF m.playerId \in DOMAIN m.players
    THEN Emit([m EXCEPT !.players = PSet(@, m.playerId,
                   Merge(m.players[m.playerId], Merge(state, [lastUpdate |-> t])))],
              "localPlayerUpdated", m.playerId)
    ELSE m

\* an addRemotePlayer that emits whether or not the id is new (C13 rests on isNew)
AddRemotePlayerAlwaysEmits(m, id, playerData, t) ==
    IF id = m.playerId THEN m
    ELSE Emit([m EXCEPT !.players = PSet(@, id,
                   Merge(playerData, [isLocal |-> FALSE, lastUpdate |-> t]))],
              "remotePlayerAdded", id)

\* addRemotePlayer(playerId, playerData)
AddRemotePlayer(m, id, playerData, t) ==
    IF id = m.playerId THEN m
    ELSE LET isNew == id \notin DOMAIN m.players
             m1 == [m EXCEPT !.players = PSet(@, id,
                        Merge(playerData, [isLocal |-> FALSE, lastUpdate |-> t]))]
         IN IF isNew THEN Emit(m1, "remotePlayerAdded", id) ELSE m1

\* an updateRemotePlayer that creates the entry when the id is unknown (C12 rests on the lookup)
UpdateRemotePlayerCreates(m, id, state, t) ==
    IF id = m.playerId THEN m
    ELSE Emit([m EXCEPT !.players = PSet(@, id,
                   Merge(IF id \in DOMAIN m.players THEN m.players[id] ELSE EmptyObj,
                         Merge(state, [lastUpdate |-> t])))],
              "remotePlayerUpdated", id)

\* updateRemotePlayer(playerId, state)
UpdateRemotePlayer(m, id, state, t) ==
    IF id = m.playerId THEN m
    ELSE IF id \in DOMAIN m.players
    THEN Emit([m EXCEPT !.players = PSet(@, id,
                   Merge(m.players[id], Merge(state, [lastUpdate |-> t])))],
              "remotePlayerUpdated", id)
    ELSE m

\* a removePlayer without the `if (player)` test (C14 rests on the test)
RemovePlayerUnguarded(m, id) ==
    Emit([m EXCEPT !.players = PDel(@, id)], "playerRemoved", id)

\* removePlayer(playerId)
RemovePlayer(m, id) ==
    IF id \in DOMAIN m.players
    THEN Emit([m EXCEPT !.players = PDel(@, id)], "playerRemoved", id)
    ELSE m

\* getLocalPlayer(): the entry, or "undefined"
GetLocalPlayer(m) ==
    IF m.playerId \in DOMAIN m.players THEN m.players[m.playerId] ELSE "undefined"

\* a broadcastState that posts on the channel whether or not the relay took
\* the message (C33 rests on the else)
BroadcastStateBoth(m, state) ==
    LET m1 == Emit(m, "stateUpdate", m.playerId)
        m2 == IF CanSendWs(m1) THEN SendWs(m1, "stateUpdate") ELSE m1
    IN [m2 EXCEPT !.sent = Append(@, [via |-> "bc", type |-> "stateUpdate"])]

\* broadcastState(state)
BroadcastState(m, state) ==
    LET m1 == Emit(m, "stateUpdate", m.playerId)
    IN IF CanSendWs(m1) THEN SendWs(m1, "stateUpdate")
       ELSE SendBroadcastMessage(m1, "stateUpdate")

\* a handleBroadcastMessage whose heartbeat case goes through updateRemotePlayer,
\* which emits remotePlayerUpdated (C15 rests on the bare assignment)
HandleBroadcastMessageHeartbeatUpdates(m, type, data, from, t) ==
    CASE type = "playerJoined" ->
            AddRemotePlayer(m, from,
                [ id |-> from, name |-> data.playerName, color |-> data.color, x |-> 0,
                  y |-> 0, hp |-> 100, maxHp |-> 100, level |-> 1, exp |-> 0,
                  isAlive |-> TRUE ], t)
      [] type = "stateUpdate" -> UpdateRemotePlayer(m, from, data.state, t)
      [] type = "playerLeft" -> RemovePlayer(m, from)
      [] type = "heartbeat" -> UpdateRemotePlayer(m, from, EmptyObj, t)
      [] OTHER -> m

\* handleBroadcastMessage(type, data, fromPlayerId)
HandleBroadcastMessage(m, type, data, from, t) ==
    CASE type = "playerJoined" ->
            AddRemotePlayer(m, from,
                [ id |-> from, name |-> data.playerName, color |-> data.color, x |-> 0,
                  y |-> 0, hp |-> 100, maxHp |-> 100, level |-> 1, exp |-> 0,
                  isAlive |-> TRUE ], t)
      [] type = "stateUpdate" -> UpdateRemotePlayer(m, from, data.state, t)
      [] type = "playerLeft" -> RemovePlayer(m, from)
      [] type = "heartbeat" ->
            IF from \in DOMAIN m.players
            THEN [m EXCEPT !.players[from] = Merge(@, [lastUpdate |-> t])]
            ELSE m
      [] OTHER -> m

\* an onmessage without the own-id filter (C5 rests on the filter)
BroadcastOnMessageUnfiltered(m, msg, t) ==
    HandleBroadcastMessage(m, msg.type, msg.data, msg.fromPlayerId, t)

\* broadcastChannel.onmessage
BroadcastOnMessage(m, msg, t) ==
    IF msg.fromPlayerId = m.playerId THEN m
    ELSE HandleBroadcastMessage(m, msg.type, msg.data, msg.fromPlayerId, t)

\* message.players.forEach(...) of the playersList case
RECURSIVE AddPlayersList(_, _, _)
AddPlayersList(m, list, t) ==
    IF list = <<>> THEN m
    ELSE LET d == Head(list)
             m1 == IF d.id # m.playerId THEN AddRemotePlayer(m, d.id, d, t) ELSE m
         IN AddPlayersList(m1, Tail(list), t)

\* handleWebSocketMessage(message)
HandleWebSocketMessage(m, msg, t) ==
    CASE msg.type = "playersList" -> AddPlayersList(m, msg.players, t)
      [] msg.type = "remotePlayerAdded" -> AddRemotePlayer(m, msg.playerId, msg.playerData, t)
      [] msg.type = "remotePlayerUpdated" -> UpdateRemotePlayer(m, msg.playerId, msg.player, t)
      [] msg.type = "playerRemoved" -> RemovePlayer(m, msg.playerId)
      [] OTHER -> m

\* ws.onopen
WsOnOpen(m) ==
    SendWs([m EXCEPT !.connected = TRUE, !.reconnectAttempts = 0], "playerJoined")

\* ws.onerror
WsOnError(m) == [m EXCEPT !.connected = FALSE]

\* an onclose that compares with <= and so retries once more (C8 rests on the comparison)
WsOnCloseOneMore(m, e) ==
    LET m1 == [m EXCEPT !.connected = FALSE]
    IN IF m1.reconnectAttempts <= MaxReconnectAttempts
       THEN [m1 EXCEPT !.reconnectAttempts = @ + 1, !.timer = TRUE]
       ELSE SetupBroadcastChannel([m1 EXCEPT !.fellBack = TRUE], e)

\* ws.onclose
WsOnClose(m, e) ==
    LET m1 == [m EXCEPT !.connected = FALSE]
    IN IF m1.reconnectAttempts < MaxReconnectAttempts
       THEN [m1 EXCEPT !.reconnectAttempts = @ + 1, !.timer = TRUE]
       ELSE SetupBroadcastChannel([m1 EXCEPT !.fellBack = TRUE], e)

\* the body of setInterval's callback in setupHeartbeat()
HeartbeatBody(m) ==
    LET m1 == Emit(m, "heartbeat", m.playerId)
    IN IF CanSendWs(m1) THEN SendWs(m1, "heartbeat")
       ELSE SendBroadcastMessage(m1, "heartbeat")

\* disconnect()
DisconnectBody(m) ==
    LET m1 == [m EXCEPT !.heartbeat = FALSE]
        m2 == IF CanSendWs(m1) THEN m1
              ELSE IF m1.bc THEN SendBroadcastMessage(m1, "playerLeft")
              ELSE m1
        m3 == [m2 EXCEPT !.bc = FALSE]
        m4 == IF m3.ws
              THEN [m3 EXCEPT !.sock = IF @ \in {"connecting", "open"} THEN "closing" ELSE @,
                              !.ws = FALSE]
              ELSE m3
    IN Emit([m4 EXCEPT !.connected = FALSE, !.disconnected = TRUE],
            "disconnected", m.playerId)

\* ---------------------------------------------------------------- manager inputs
\* options and page: no relay configured on a public host, the same on
\* localhost (the relay URL is auto-detected), the relay switched off, an
\* explicit URL that new WebSocket rejects, the channel switched off, and a
\* browser without BroadcastChannel.  A relay URL given explicitly behaves as
\* the auto-detected one.
Page(url, host, useWs, useBc, bcOk, urlOk) ==
    [ optWsUrl |-> url, hostname |-> host, useWebSocket |-> useWs,
      useLocalBroadcast |-> useBc, bcSupported |-> bcOk, urlOk |-> urlOk ]

Envs ==
    { Page(FALSE, "example.com", TRUE, TRUE, TRUE, TRUE),
      Page(FALSE, "localhost", TRUE, TRUE, TRUE, TRUE),
      Page(FALSE, "127.0.0.1", FALSE, TRUE, TRUE, TRUE),
      Page(TRUE, "example.com", TRUE, TRUE, TRUE, FALSE),
      Page(FALSE, "example.com", TRUE, FALSE, TRUE, TRUE),
      Page(FALSE, "example.com", TRUE, TRUE, FALSE, TRUE) }

\* state objects a peer publishes; a payload may carry any field
StatePayloads == { [hp |-> 40], [isLocal |-> TRUE] }

\* the record the relay stores for a player, as sent in playersList and
\* remotePlayerAdded
ServerRecord(id) ==
    [ id |-> id, name |-> "peer", color |-> "2196F3", x |-> 0, y |-> 0, hp |-> 100,
      maxHp |-> 100, level |-> 1, exp |-> 0, isAlive |-> TRUE, connectedAt |-> 0 ]

PlayerDatas(id) == { ServerRecord(id), Merge(ServerRecord(id), [isLocal |-> TRUE]) }

\* envelopes on the BroadcastChannel
BcMessages ==
    UNION { { [type |-> "playerJoined", fromPlayerId |-> id,
               data |-> [playerName |-> "peer", color |-> "2196F3"]],
              [type |-> "playerLeft", fromPlayerId |-> id, data |-> EmptyObj],
              [type |-> "heartbeat", fromPlayerId |-> id, data |-> EmptyObj],
              [type |-> "pause", fromPlayerId |-> id, data |-> EmptyObj] }
            \cup { [type |-> "stateUpdate", fromPlayerId |-> id, data |-> [state |-> st]] :
                   st \in StatePayloads } : id \in AllIds }

\* messages of the relay
WsMessages ==
    { [type |-> "playersList", players |-> l] :
        l \in { <<>>, <<ServerRecord(PlayerId)>>,
                <<ServerRecord(PlayerId), ServerRecord("p1")>> } }
    \cup UNION { { [type |-> "remotePlayerAdded", playerId |-> id, playerData |-> d] :
                     d \in PlayerDatas(id) }
                 \cup { [type |-> "remotePlayerUpdated", playerId |-> id,
                         player |-> Merge(ServerRecord(id), Merge(st, [lastUpdate |-> 0]))] :
                        st \in StatePayloads }
                 \cup { [type |-> "playerRemoved", playerId |-> id],
                        [type |-> "pong", playerId |-> id] } : id \in AllIds }

\* states the game hands to updateLocalPlayer and broadcastState
LocalStates ==
    { [hp |-> 10, x |-> 5] }

MOp(n, ty, id, pl) == [name |-> n, type |-> ty, id |-> id, payload |-> pl]

\* a handler starts with nothing emitted and nothing sent
Begin(m) == [m EXCEPT !.emitted = <<>>, !.sent = <<>>]

\* ---------------------------------------------------------------- manager actions
InitManager ==
    /\ env \in Envs
    /\ mgr = NewManager(env)
    /\ mgrOp = MOp("constructor", "-", "-", EmptyObj)

\* init()
DoInit ==
    /\ ~mgr.inited
    /\ \E c \in Palette, t \in Times :
        /\ now' = t
        /\ mgr' = [BroadcastPlayerJoined(RegisterLocalPlayer(Begin(mgr), c, t))
                     EXCEPT !.heartbeat = TRUE, !.inited = TRUE, !.initResult = mgr.playerId]
    /\ mgrOp' = MOp("init", "-", "-", EmptyObj)
    /\ UNCHANGED env
    /\ UNCHANGED outsideMgr

\* the heartbeat interval elapses
HeartbeatFires ==
    /\ mgr.heartbeat
    /\ mgr' = HeartbeatBody(Begin(mgr))
    /\ mgrOp' = MOp("heartbeat", "-", "-", EmptyObj)
    /\ UNCHANGED <<env, now>>
    /\ UNCHANGED outsideMgr

\* the relay accepts the connection
WsOpens ==
    /\ mgr.sock = "connecting"
    /\ mgr' = [WsOnOpen(Begin(mgr)) EXCEPT !.sock = "open", !.everOpened = TRUE]
    /\ mgrOp' = MOp("onopen", "-", "-", EmptyObj)
    /\ UNCHANGED <<env, now>>
    /\ UNCHANGED outsideMgr

\* the connection fails; the socket is on its way to closed
WsErrors ==
    /\ mgr.sock \in {"connecting", "open"}
    /\ mgr' = [WsOnError(Begin(mgr)) EXCEPT !.sock = "closing"]
    /\ mgrOp' = MOp("onerror", "-", "-", EmptyObj)
    /\ UNCHANGED <<env, now>>
    /\ UNCHANGED outsideMgr

\* the close event of the latest socket
WsCloses ==
    /\ mgr.sock \in {"connecting", "open", "closing"}
    /\ mgr' = WsOnClose([Begin(mgr) EXCEPT !.sock = "closed"], env)
    /\ mgrOp' = MOp("onclose", "-", "-", EmptyObj)
    /\ UNCHANGED <<env, now>>
    /\ UNCHANGED outsideMgr

\* the reconnect timer of onclose fires
TimerFires ==
    /\ mgr.timer
    /\ mgr' = SetupWebSocket([Begin(mgr) EXCEPT !.timer = FALSE], env)
    /\ mgrOp' = MOp("reconnect", "-", "-", EmptyObj)
    /\ UNCHANGED <<env, now>>
    /\ UNCHANGED outsideMgr

\* ws.onmessage: a message of the relay arrives on the open socket
WsMessageArrives ==
    /\ mgr.sock = "open"
    /\ \E msg \in WsMessages, t \in Times :
        /\ now' = t
        /\ mgr' = [HandleWebSocketMessage(Begin(mgr), msg, t) EXCEPT !.inbound = mgr.inited]
        /\ mgrOp' = MOp("wsMessage", msg.type,
                        IF msg.type = "playersList" THEN "-" ELSE msg.playerId, EmptyObj)
    /\ UNCHANGED env
    /\ UNCHANGED outsideMgr

\* broadcastChannel.onmessage: an envelope arrives on the channel
BcMessageArrives ==
    /\ mgr.bc
    /\ \E msg \in BcMessages, t \in Times :
        /\ now' = t
        /\ mgr' = [BroadcastOnMessage(Begin(mgr), msg, t) EXCEPT !.inbound = mgr.inited]
        /\ mgrOp' = MOp("bcMessage", msg.type, msg.fromPlayerId, EmptyObj)
    /\ UNCHANGED env
    /\ UNCHANGED outsideMgr

DoUpdateLocalPlayer ==
    /\ \E st \in LocalStates, t \in Times :
        /\ now' = t
        /\ mgr' = UpdateLocalPlayer(Begin(mgr), st, t)
        /\ mgrOp' = MOp("updateLocalPlayer", "-", "-", st)
    /\ UNCHANGED env
    /\ UNCHANGED outsideMgr

DoBroadcastState ==
    /\ \E st \in LocalStates :
        /\ mgr' = BroadcastState(Begin(mgr), st)
        /\ mgrOp' = MOp("broadcastState", "-", "-", st)
    /\ UNCHANGED <<env, now>>
    /\ UNCHANGED outsideMgr

DoDisconnect ==
    /\ mgr' = DisconnectBody(Begin(mgr))
    /\ mgrOp' = MOp("disconnect", "-", "-", EmptyObj)
    /\ UNCHANGED <<env, now>>
    /\ UNCHANGED outsideMgr

\* ---------------------------------------------------------------- malformed messages
Undefined == "undefined"        \* the value of a property that is not there

\* o.f, for an object o
Field(o, f) == IF Has(o, f) THEN o[f] ELSE Undefined

\* the object with the properties fs that o lacks set to undefined
WithFields(o, fs) == [f \in (DOMAIN o) \cup fs |-> Field(o, f)]

\* Text frames on the relay socket that a well-behaved relay never sends:
\* text that is not JSON, and messages with a property missing
WsMalformed ==
    { [unparseable |-> TRUE],
      EmptyObj,
      [type |-> "playersList"],
      [type |-> "remotePlayerAdded", playerId |-> "p1"],
      [type |-> "remotePlayerAdded", playerData |-> ServerRecord("p1")],
      [type |-> "remotePlayerUpdated", playerId |-> "p1"],
      [type |-> "remotePlayerUpdated", player |-> [hp |-> 40]],
      [type |-> "playerRemoved"] }

\* whether handleWebSocketMessage throws a TypeError for the message:
\* message.players.length, message.playerData.name and
\* message.playerId.substring read a property of undefined
WsMessageThrows(msg) ==
    \/ msg.type = "playersList" /\ ~Has(msg, "players")
    \/ msg.type = "remotePlayerAdded" /\ ~Has(msg, "playerData")
    \/ msg.type = "playerRemoved" /\ ~Has(msg, "playerId")

\* ws.onmessage for any text frame: JSON.parse and handleWebSocketMessage
\* inside try / catch.  {...undefined} spreads to nothing.
WsOnMessage(m, msg, t) ==
    IF Has(msg, "unparseable") THEN m
    ELSE IF ~Has(msg, "type") THEN m
    ELSE IF WsMessageThrows(msg) THEN m
    ELSE HandleWebSocketMessage(
             m,
             IF Has(msg, "player") \/ msg.type # "remotePlayerUpdated"
             THEN WithFields(msg, {"playerId"})
             ELSE Merge(WithFields(msg, {"playerId"}), [player |-> EmptyObj]),
             t)

\* Envelopes on the channel with a property missing
BcMalformed ==
    { EmptyObj,
      [type |-> "playerJoined", fromPlayerId |-> "p1"],
      [type |-> "playerJoined", data |-> [playerName |-> "peer", color |-> "2196F3"]],
      [type |-> "playerJoined", fromPlayerId |-> "p1", data |-> EmptyObj],
      [type |-> "stateUpdate", fromPlayerId |-> "p1"],
      [type |-> "stateUpdate", fromPlayerId |-> "p1", data |-> EmptyObj],
      [type |-> "playerLeft"],
      [type |-> "heartbeat"] }

\* whether handleBroadcastMessage throws a TypeError for the envelope:
\* data.playerName, data.state and fromPlayerId.substring read a property of
\* undefined
BcMessageThrows(msg) ==
    \/ msg.type = "playerJoined" /\ (~Has(msg, "data") \/ ~Has(msg, "fromPlayerId"))
    \/ msg.type = "stateUpdate" /\ ~Has(msg, "data")
    \/ msg.type = "playerLeft" /\ ~Has(msg, "fromPlayerId")

\* broadcastChannel.onmessage for any envelope; nothing catches what
\* handleBroadcastMessage throws
BcOnMessage(m, msg, t) ==
    IF ~Has(msg, "type") THEN m
    ELSE IF Field(msg, "fromPlayerId") = m.playerId THEN m
    ELSE IF BcMessageThrows(msg) THEN m
    ELSE HandleBroadcastMessage(
             m, msg.type,
             IF msg.type = "playerJoined" THEN WithFields(msg.data, {"playerName", "color"})
             ELSE IF msg.type = "stateUpdate" /\ ~Has(msg.data, "state")
             THEN [state |-> EmptyObj]
             ELSE Field(msg, "data"),
             Field(msg, "fromPlayerId"), t)

\* a malformed frame arrives on the relay socket
WsMalformedArrives ==
    /\ mgr.sock = "open"
    /\ \E msg \in WsMalformed, t \in Times :
        /\ now' = t
        /\ mgr' = [WsOnMessage(Begin(mgr), msg, t) EXCEPT !.inbound = mgr.inited]
        /\ mgrOp' = MOp("wsMalformed", Field(msg, "type"), Field(msg, "playerId"), msg)
    /\ UNCHANGED env
    /\ UNCHANGED outsideMgr

\* a malformed envelope arrives on the channel
BcMalformedArrives ==
    /\ mgr.bc
    /\ \E msg \in BcMalformed, t \in Times :
        /\ now' = t
        /\ mgr' = [BcOnMessage(Begin(mgr), msg, t) EXCEPT !.inbound = mgr.inited]
        /\ mgrOp' = MOp("bcMalformed", Field(msg, "type"), Field(msg, "fromPlayerId"), msg)
    /\ UNCHANGED env
    /\ UNCHANGED outsideMgr

\* ---------------------------------------------------------------- listener actions
\* events the page subscribes to
EventNames == {"playerRemoved", "heartbeat"}

\* on(event, callback)
DoOn ==
    /\ \E ev \in EventNames, cb \in Callbacks :
        /\ ev \in DOMAIN mgr.listeners => Len(mgr.listeners[ev]) < MaxListeners
        /\ mgr' = On(Begin(mgr), ev, cb)
        /\ mgrOp' = MOp("on", ev, cb, EmptyObj)
    /\ UNCHANGED <<env, now>>
    /\ UNCHANGED outsideMgr

\* off(event, callback)
DoOff ==
    /\ \E ev \in EventNames, cb \in Callbacks :
        /\ mgr' = Off(Begin(mgr), ev, cb)
        /\ mgrOp' = MOp("off", ev, cb, EmptyObj)
    /\ UNCHANGED <<env, now>>
    /\ UNCHANGED outsideMgr

\* emit(event, data)
DoEmit ==
    /\ \E ev \in EventNames :
        /\ mgr' = Emit(Begin(mgr), ev, mgr.playerId)
        /\ mgrOp' = MOp("emit", ev, "-", EmptyObj)
    /\ UNCHANGED <<env, now>>
    /\ UNCHANGED outsideMgr

\* ================================================================ PlayerRegistry
RegIds == {"a", "b"}        \* playerId of the entities given to register()
DeathTicks == 24            \* updateDeathAnimation destroys the entity at this count
FrameTimes == {16, 17}      \* deltaTime of updateAll, in ms

\* the last method called on the registry: its name, the playerId or the
\* deltaTime it was given, and what get(id) and getAll() returned
ROp(n, id, deltaTime, found, all) ==
    [name |-> n, id |-> id, deltaTime |-> deltaTime, found |-> found, all |-> all]

\* new PlayerRegistry()
NewRegistry == [players |-> EmptyObj, op |-> ROp("constructor", "-", 0, FALSE, {})]

\* destroy()
Destroy(p) == [p EXCEPT !.hasSprite = FALSE, !.isActive = FALSE]

\* updateDeathAnimation()
UpdateDeathAnimation(p) ==
    IF ~p.isDead \/ ~p.hasSprite THEN p
    ELSE LET q == [p EXCEPT !.deathAnimTimer = @ + 1]
         IN IF q.deathAnimTimer < DeathTicks THEN q ELSE Destroy(q)

\* register(player)
Register(players, id, player) == PSet(players, id, player)

\* unregister(playerId)
Unregister(players, id) ==
    IF id \in DOMAIN players THEN PDel(players, id) ELSE players

\* updateAll(deltaTime)
UpdateAll(players) ==
    [id \in DOMAIN players |->
        IF players[id].isDead THEN UpdateDeathAnimation(players[id])
        ELSE Update(players[id])]

\* get(playerId): whether an entity is returned
Get(players, id) == id \in DOMAIN players

\* getAll(): the playerIds of the entities in the array
GetAll(players) == DOMAIN players

\* getActive() and getDead(): the playerIds of the entities in the array
GetActive(players) == {id \in DOMAIN players : players[id].isActive}

GetDead(players) == {id \in DOMAIN players : players[id].isDead}

\* ---------------------------------------------------------------- registry actions
\* register(new PlayerModule(scene, id)), with or without create() before it
DoRegister ==
    /\ \E id \in RegIds, sprite \in BOOLEAN :
        /\ id \notin DOMAIN reg.players
        /\ reg' = [ players |-> Register(reg.players, id,
                                         [NewPlayerModule(EmptyObj, now) EXCEPT !.hasSprite = sprite]),
                    op |-> ROp("register", id, 0, FALSE, {}) ]
    /\ UNCHANGED <<now, pmVars, mgrVars, srvVars, tabVars>>

DoUnregister ==
    /\ \E id \in RegIds :
        reg' = [players |-> Unregister(reg.players, id), op |-> ROp("unregister", id, 0, FALSE, {})]
    /\ UNCHANGED <<now, pmVars, mgrVars, srvVars, tabVars>>

\* takeDamage(amount) on a registered entity, with an amount that kills it
DoRegisteredTakeDamage ==
    /\ \E id \in DOMAIN reg.players, amount \in {100}, t \in Times :
        /\ now' = t
        /\ reg' = [ players |-> PSet(reg.players, id, TakeDamage(reg.players[id], amount, t)),
                    op |-> ROp("takeDamage", id, 0, FALSE, {}) ]
    /\ UNCHANGED <<pmVars, mgrVars, srvVars, tabVars>>

DoUpdateAll ==
    /\ \E deltaTime \in FrameTimes :
        reg' = [players |-> UpdateAll(reg.players), op |-> ROp("updateAll", "-", deltaTime, FALSE, {})]
    /\ UNCHANGED <<now, pmVars, mgrVars, srvVars, tabVars>>

\* MainScene.handleRemotePlayerUpdated for a registered entity: setState
\* with the record its peer publishes once it has died, which carries
\* isDead and no isActive
DoRegisteredSetState ==
    /\ \E id \in DOMAIN reg.players, t \in Times :
        \E s \in {x \in PeerStates : Has(x, "isDead") /\ ~Has(x, "isActive") /\ x.isDead} :
            /\ now' = t
            /\ reg' = [ players |-> PSet(reg.players, id, SetState(reg.players[id], s, t)),
                        op |-> ROp("setState", id, 0, FALSE, {}) ]
    /\ UNCHANGED <<pmVars, mgrVars, srvVars, tabVars>>

\* get(id) and getAll()
DoGet ==
    /\ \E id \in RegIds :
        reg' = [reg EXCEPT !.op = ROp("get", id, 0, Get(reg.players, id),
                                      GetAll(reg.players))]
    /\ UNCHANGED <<now, pmVars, mgrVars, srvVars, tabVars>>

\* ================================================================ relay server
Conns == {"c1", "c2", "c3"}     \* the sockets the relay may accept
\* the playerId each client's manager generated for itself
ConnId == [c1 |-> PlayerId, c2 |-> "p1", c3 |-> "p2"]

SweepInterval == 10000          \* ms between two runs of the inactivity sweep
InactivityThreshold == 30000    \* ms without an update after which a player is swept

\* The instants of the relay's clock at which its handlers run: the start,
\* and the sweeps that run InactivityThreshold and InactivityThreshold +
\* SweepInterval later.  The sweeps in between find no player to remove.
Instants ==
    << SweepInterval, SweepInterval + InactivityThreshold,
       (2 * SweepInterval) + InactivityThreshold >>

\* the instant after t
NextInstant(t) ==
    LET i == CHOOSE k \in 1..Len(Instants) : Instants[k] = t IN Instants[i + 1]

\* the last handler of the relay that ran, the socket it ran for and the
\* message it was given
SOp(n, c, data) == [name |-> n, conn |-> c, data |-> data]

\* The relay after server.listen(): no player, no connection.  webSocket is
\* whether the runtime defines the global `WebSocket` that broadcast reads:
\* server.js imports only WebSocketServer, so the name resolves on a Node.js
\* that has a built-in WebSocket and is a ReferenceError on one that has not.
NewServer(webSocket) ==
    [ webSocket |-> webSocket,
      up |-> TRUE,                  \* FALSE once an uncaught exception ended the process
      clock |-> Instants[1],        \* Date.now() of the relay
      players |-> EmptyObj,         \* const players = new Map()
      order |-> <<>>,               \* the keys of players in insertion order
      conns |-> [c \in Conns |-> [state |-> "none", playerId |-> "null"]],
      sent |-> {},                  \* [to, msg]: what the last handler sent
      op |-> SOp("listen", "-", EmptyObj) ]

\* no relay runs
ServerDown == [NewServer(TRUE) EXCEPT !.up = FALSE]

\* wss.clients: the sockets accepted and not yet closed
Clients(s) == {c \in Conns : s.conns[c].state \in {"open", "closing"}}

\* ws.send(JSON.stringify(msg)) on the socket c
SendTo(s, c, msg) == [s EXCEPT !.sent = @ \cup {[to |-> c, msg |-> msg]}]

RECURSIVE SendToAll(_, _, _)
SendToAll(s, cs, msg) ==
    IF cs = {} THEN s
    ELSE LET c == CHOOSE x \in cs : TRUE
         IN SendToAll(SendTo(s, c, msg), cs \ {c}, msg)

\* broadcast(message, excludePlayerId): the relay after the call, and
\* whether the call threw.  Without a global WebSocket the test of the first
\* client visited throws a ReferenceError before anything is sent.
Broadcast(s, msg, excludePlayerId) ==
    IF Clients(s) = {} THEN [srv |-> s, threw |-> FALSE]
    ELSE IF ~s.webSocket THEN [srv |-> s, threw |-> TRUE]
    ELSE [ srv |-> SendToAll(s, { c \in Clients(s) :
                                    /\ s.conns[c].state = "open"
                                    /\ ~(excludePlayerId # "null"
                                           /\ s.conns[c].playerId = excludePlayerId) },
                             msg),
           threw |-> FALSE ]

\* players.set(id, record) and players.delete(id), with the insertion order
SrvSet(s, id, record) ==
    [s EXCEPT !.players = PSet(@, id, record),
              !.order = IF id \in DOMAIN s.players THEN @ ELSE Append(@, id)]

SrvDelete(s, id) ==
    [s EXCEPT !.players = PDel(@, id),
              !.order = SelectSeq(@, LAMBDA k : k # id)]

\* Array.from(players.values())
PlayersArray(s) == [i \in 1..Len(s.order) |-> s.players[s.order[i]]]

\* the record stored for a player that joins
JoinRecord(data, t) ==
    [ id |-> data.playerId, name |-> data.playerName, color |-> data.color, x |-> 0,
      y |-> 0, hp |-> 100, maxHp |-> 100, level |-> 1, exp |-> 0, isAlive |-> TRUE,
      connectedAt |-> t ]

\* ws.on('message') for the socket c: the switch inside try / catch; an
\* exception thrown by broadcast is caught and logged, what was done before
\* it stays done
OnMessage(s, c, data) ==
    LET playerId == s.conns[c].playerId
    IN CASE data.type = "playerJoined" ->
              LET s1 == [s EXCEPT !.conns[c].playerId = data.playerId]
                  s2 == SrvSet(s1, data.playerId, JoinRecord(data, s.clock))
                  s3 == SendTo(s2, c, [type |-> "playersList", players |-> PlayersArray(s2)])
              IN Broadcast(s3, [ type |-> "remotePlayerAdded", playerId |-> data.playerId,
                                 playerData |-> s3.players[data.playerId] ],
                           data.playerId).srv
         [] data.type = "stateUpdate" ->
              IF playerId = "null" THEN s
              ELSE IF playerId \notin DOMAIN s.players THEN s
              ELSE LET player == Merge(s.players[playerId],
                                       Merge(data.state, [lastUpdate |-> s.clock]))
                       s1 == [s EXCEPT !.players[playerId] = player]
                   IN Broadcast(s1, [ type |-> "remotePlayerUpdated", playerId |-> playerId,
                                      player |-> player ],
                                playerId).srv
         [] data.type = "heartbeat" ->
              IF playerId = "null" THEN s
              ELSE IF playerId \notin DOMAIN s.players THEN s
              ELSE [s EXCEPT !.players[playerId] =
                               Merge(@, [lastUpdate |-> s.clock])]
         [] OTHER -> s

\* ws.on('close') for the socket c, which has left wss.clients; an exception
\* thrown by broadcast is not caught and ends the process
OnClose(s, c) ==
    LET playerId == s.conns[c].playerId
        s1 == [s EXCEPT !.conns[c].state = "closed"]
    IN IF playerId = "null" THEN s1
       ELSE LET b == Broadcast(SrvDelete(s1, playerId),
                               [type |-> "playerRemoved", playerId |-> playerId], "null")
            IN IF b.threw THEN [b.srv EXCEPT !.up = FALSE] ELSE b.srv

\* the body of the sweep: for (const [id, player] of players.entries()),
\* from the i-th key of the order the loop started with
RECURSIVE SweepFrom(_, _, _)
SweepFrom(s, keys, i) ==
    IF i > Len(keys) THEN s
    ELSE LET id == keys[i]
             player == s.players[id]
         IN IF Has(player, "lastUpdate") /\ player.lastUpdate # 0
               /\ (s.clock - player.lastUpdate) > InactivityThreshold
            THEN LET b == Broadcast(SrvDelete(s, id),
                                    [type |-> "playerRemoved", playerId |-> id], "null")
                 IN IF b.threw THEN [b.srv EXCEPT !.up = FALSE]
                    ELSE SweepFrom(b.srv, keys, i + 1)
            ELSE SweepFrom(s, keys, i + 1)

Sweep(s) == SweepFrom(s, s.order, 1)

\* a handler starts with nothing sent
SrvBegin(s, n, c, data) == [s EXCEPT !.sent = {}, !.op = SOp(n, c, data)]

\* ---------------------------------------------------------------- relay inputs
\* state objects of a stateUpdate
RelayPayloads == { [hp |-> 40], [x |-> 5] }

\* What the manager behind each socket sends after it has connected: each
\* one joins; the client of c1 then sends heartbeats, the client of c2
\* publishes its hp and its position in separate updates, the client of c3
\* stays silent.
ClientMessages(c) ==
    { [type |-> "playerJoined", playerId |-> ConnId[c], playerName |-> "peer",
       color |-> "2196F3"] }
    \cup (IF c = "c1" THEN { [type |-> "heartbeat"] } ELSE {})
    \cup (IF c = "c2" THEN { [type |-> "stateUpdate", state |-> st] : st \in RelayPayloads }
          ELSE {})

\* ---------------------------------------------------------------- relay actions
\* wss.on('connection')
SrvConnection ==
    /\ srv.up
    /\ \E c \in Conns :
        /\ srv.conns[c].state = "none"
        /\ srv' = [SrvBegin(srv, "connection", c, EmptyObj) EXCEPT !.conns[c].state = "open"]
    /\ UNCHANGED <<now, pmVars, mgrVars, regVars, tabVars>>

\* ws.on('message')
SrvMessage ==
    /\ srv.up
    /\ \E c \in Conns :
        /\ srv.conns[c].state = "open"
        /\ \E data \in ClientMessages(c) :
            srv' = OnMessage(SrvBegin(srv, data.type, c, data), c, data)
    /\ UNCHANGED <<now, pmVars, mgrVars, regVars, tabVars>>

\* ws.on('message') for a second playerJoined on a socket that has joined,
\* carrying another id than the first
OtherId == [c1 |-> "p3"]

SrvRejoin ==
    /\ srv.up
    /\ \E c \in DOMAIN OtherId :
        /\ srv.conns[c].state = "open"
        /\ srv.conns[c].playerId = ConnId[c]
        /\ LET data == [type |-> "playerJoined", playerId |-> OtherId[c],
                        playerName |-> "peer", color |-> "2196F3"]
           IN srv' = OnMessage(SrvBegin(srv, data.type, c, data), c, data)
    /\ UNCHANGED <<now, pmVars, mgrVars, regVars, tabVars>>

\* ws.on('message') for the messages of a client that names another
\* client's player as its own: a stateUpdate and a playerJoined that carry
\* the playerId of the player of c2
ForgedMessages ==
    { [type |-> "stateUpdate", playerId |-> ConnId["c2"], state |-> [hp |-> 1]],
      [type |-> "playerJoined", playerId |-> ConnId["c2"], playerName |-> "peer",
       color |-> "2196F3"] }

SrvForged ==
    /\ srv.up
    /\ srv.conns["c3"].state = "open"
    /\ \E data \in ForgedMessages :
        srv' = OnMessage(SrvBegin(srv, data.type, "c3", data), "c3", data)
    /\ UNCHANGED <<now, pmVars, mgrVars, regVars, tabVars>>

\* the closing handshake of the socket c begins: it is no longer OPEN
SrvClosing ==
    /\ srv.up
    /\ \E c \in Conns :
        /\ srv.conns[c].state = "open"
        /\ srv' = [SrvBegin(srv, "closing", c, EmptyObj) EXCEPT !.conns[c].state = "closing"]
    /\ UNCHANGED <<now, pmVars, mgrVars, regVars, tabVars>>

\* ws.on('close')
SrvClose ==
    /\ srv.up
    /\ \E c \in Conns :
        /\ srv.conns[c].state \in {"open", "closing"}
        /\ srv' = OnClose(SrvBegin(srv, "close", c, EmptyObj), c)
    /\ UNCHANGED <<now, pmVars, mgrVars, regVars, tabVars>>

\* the setInterval callback, at the next instant
SrvSweep ==
    /\ srv.up
    /\ srv.clock # Instants[Len(Instants)]
    /\ srv' = Sweep([SrvBegin(srv, "sweep", "-", EmptyObj) EXCEPT !.clock = NextInstant(@)])
    /\ UNCHANGED <<now, pmVars, mgrVars, regVars, tabVars>>

\* the setInterval callback at the instants after the last one above: the
\* clock reads as that one; op tells a run of the timer from the run before
\* it by the parity of its number
SrvSweepLate ==
    /\ srv.up
    /\ srv.clock = Instants[Len(Instants)]
    /\ LET odd == srv.op.name = "sweep" /\ Has(srv.op.data, "odd") /\ srv.op.data.odd
       IN srv' = Sweep(SrvBegin(srv, "sweep", "-", [odd |-> ~odd]))
    /\ UNCHANGED <<now, pmVars, mgrVars, regVars, tabVars>>

\* ---------------------------------------------------------------- tabs on one channel
\* Two browser tabs of one origin, each constructing a MultiplayerManager on
\* the same BroadcastChannel name.  postMessage queues the envelope for every
\* other BroadcastChannel object that exists when it is called; a tab whose
\* manager is constructed later never sees it.
Tabs == {"A", "B"}
TabId == [A |-> PlayerId, B |-> "p1"]      \* generateUniqueId() of each tab
MaxInFlight == 1                           \* nothing is posted to an inbox this long

\* a page without relay endpoint: the constructor opens the channel
TabPage == Page(FALSE, "example.com", TRUE, TRUE, TRUE, TRUE)

NoTabs == [mgrs |-> EmptyObj, inbox |-> [i \in Tabs |-> <<>>]]

\* getRemotePlayers(), as the set of ids
GetRemotePlayers(m) == {id \in DOMAIN m.players : ~m.players[id].isLocal}

\* the envelope sendBroadcastMessage posts
Envelope(m, type, data) == [type |-> type, data |-> data, fromPlayerId |-> m.playerId]

\* BroadcastChannel.postMessage for what the handler sent on the channel
PostMessage(tb, i, m, data) ==
    LET posted == SelectSeq(m.sent, LAMBDA s : s.via = "bc")
        envs == [k \in 1..Len(posted) |-> Envelope(m, posted[k].type, data)]
    IN [mgrs |-> PSet(tb.mgrs, i, m),
        inbox |-> [j \in Tabs |->
                     IF j # i /\ j \in DOMAIN tb.mgrs /\ tb.mgrs[j].bc
                     THEN tb.inbox[j] \o envs ELSE tb.inbox[j]]]

\* room in the inbox of every other tab
CanPost(i) == \A j \in Tabs \ {i} : Len(tabs.inbox[j]) < MaxInFlight

\* new MultiplayerManager() in tab i
TabOpens(i) ==
    /\ i \notin DOMAIN tabs.mgrs
    /\ tabs' = [tabs EXCEPT !.mgrs = PSet(@, i, [NewManager(TabPage) EXCEPT !.playerId = TabId[i]])]
    /\ UNCHANGED <<now, pmVars, mgrVars, regVars, srvVars>>

\* init() in tab i
TabInit(i) ==
    /\ i \in DOMAIN tabs.mgrs
    /\ ~tabs.mgrs[i].inited
    /\ CanPost(i)
    /\ \E c \in Palette, t \in Times :
        /\ now' = t
        /\ LET m == [BroadcastPlayerJoined(RegisterLocalPlayer(Begin(tabs.mgrs[i]), c, t))
                       EXCEPT !.heartbeat = TRUE, !.inited = TRUE, !.initResult = TabId[i]]
           IN tabs' = PostMessage(tabs, i, m, [playerName |-> "local", color |-> c])
    /\ UNCHANGED <<pmVars, mgrVars, regVars, srvVars>>

\* the heartbeat interval of tab i elapses
TabHeartbeat(i) ==
    /\ i \in DOMAIN tabs.mgrs
    /\ tabs.mgrs[i].heartbeat
    /\ CanPost(i)
    /\ tabs' = PostMessage(tabs, i, HeartbeatBody(Begin(tabs.mgrs[i])), EmptyObj)
    /\ UNCHANGED <<now, pmVars, mgrVars, regVars, srvVars>>

\* the game loop of tab i publishes its state
TabBroadcastState(i) ==
    /\ i \in DOMAIN tabs.mgrs
    /\ tabs.mgrs[i].inited
    /\ CanPost(i)
    /\ \E st \in LocalStates :
        tabs' = PostMessage(tabs, i, BroadcastState(Begin(tabs.mgrs[i]), st), [state |-> st])
    /\ UNCHANGED <<now, pmVars, mgrVars, regVars, srvVars>>

\* broadcastChannel.onmessage of tab i, for the oldest envelope in its inbox
TabReceives(i) ==
    /\ i \in DOMAIN tabs.mgrs
    /\ tabs.inbox[i] # <<>>
    /\ \E t \in Times :
        /\ now' = t
        /\ tabs' = [tabs EXCEPT
                      !.mgrs[i] = BroadcastOnMessage(Begin(@), Head(tabs.inbox[i]), t),
                      !.inbox[i] = Tail(@)]
    /\ UNCHANGED <<pmVars, mgrVars, regVars, srvVars>>

\* ---------------------------------------------------------------- clients of the relay
\* Two managers on pages that detect the relay, each on its own socket of
\* the relay above: what a manager sends waits in its outbox until the
\* relay's message handler runs for it, what the relay sends to a socket
\* waits in that client's inbox until ws.onmessage runs.
TabConn == [A |-> "c1", B |-> "c2"]

RelayPage == Page(FALSE, "localhost", TRUE, TRUE, TRUE, TRUE)

NoClients == Merge(NoTabs, [outbox |-> [i \in Tabs |-> <<>>]])

\* the playerJoined message of onopen and of broadcastPlayerJoined
JoinMessage(m, color) ==
    [type |-> "playerJoined", playerId |-> m.playerId, playerName |-> "local", color |-> color]

\* the messages the handler of manager m sent on its socket, as the relay reads them
Upstream(m, color) ==
    LET sentWs == SelectSeq(m.sent, LAMBDA s : s.via = "ws" /\ s.type = "playerJoined")
    IN [k \in 1..Len(sentWs) |-> JoinMessage(m, color)]

\* what the last handler of the relay sent to the socket of client i
Downstream(s, i) ==
    LET ms == {x \in s.sent : x.to = TabConn[i]}
    IN IF ms = {} THEN <<>> ELSE <<(CHOOSE x \in ms : TRUE).msg>>

\* new MultiplayerManager() on the page of client i: the socket is connecting
ClientConstructs(i) ==
    /\ i \notin DOMAIN tabs.mgrs
    /\ tabs' = [tabs EXCEPT !.mgrs = PSet(@, i, [NewManager(RelayPage) EXCEPT !.playerId = TabId[i]])]
    /\ UNCHANGED <<now, pmVars, mgrVars, regVars, srvVars>>

\* wss.on('connection') for the socket of client i
ClientAccepted(i) ==
    /\ srv.up
    /\ i \in DOMAIN tabs.mgrs
    /\ tabs.mgrs[i].sock = "connecting"
    /\ srv.conns[TabConn[i]].state = "none"
    /\ srv' = [SrvBegin(srv, "connection", TabConn[i], EmptyObj)
                 EXCEPT !.conns[TabConn[i]].state = "open"]
    /\ UNCHANGED <<now, pmVars, mgrVars, regVars, tabVars>>

\* ws.onopen of client i
ClientOpens(i) ==
    /\ i \in DOMAIN tabs.mgrs
    /\ tabs.mgrs[i].sock = "connecting"
    /\ srv.conns[TabConn[i]].state = "open"
    /\ \E c \in Palette :
        LET m == [WsOnOpen(Begin(tabs.mgrs[i])) EXCEPT !.sock = "open", !.everOpened = TRUE]
        IN tabs' = [tabs EXCEPT !.mgrs[i] = m, !.outbox[i] = @ \o Upstream(m, c)]
    /\ UNCHANGED <<now, pmVars, mgrVars, regVars, srvVars>>

\* init() of client i
ClientInit(i) ==
    /\ i \in DOMAIN tabs.mgrs
    /\ ~tabs.mgrs[i].inited
    /\ \E c \in Palette, t \in Times :
        /\ now' = t
        /\ LET m == [BroadcastPlayerJoined(RegisterLocalPlayer(Begin(tabs.mgrs[i]), c, t))
                       EXCEPT !.heartbeat = TRUE, !.inited = TRUE, !.initResult = TabId[i]]
           IN tabs' = [tabs EXCEPT !.mgrs[i] = m, !.outbox[i] = @ \o Upstream(m, c)]
    /\ UNCHANGED <<pmVars, mgrVars, regVars, srvVars>>

\* ws.on('message') of the relay for the oldest message client i sent
RelayServes(i) ==
    /\ srv.up
    /\ tabs.outbox[i] # <<>>
    /\ LET data == Head(tabs.outbox[i])
           s == OnMessage(SrvBegin(srv, data.type, TabConn[i], data), TabConn[i], data)
       IN /\ srv' = s
          /\ tabs' = [tabs EXCEPT !.outbox[i] = Tail(@),
                                  !.inbox = [j \in Tabs |-> @[j] \o Downstream(s, j)]]
    /\ UNCHANGED <<now, pmVars, mgrVars, regVars>>

\* ws.onmessage of client i for the oldest message the relay sent it
ClientReceives(i) ==
    /\ i \in DOMAIN tabs.mgrs
    /\ tabs.inbox[i] # <<>>
    /\ \E t \in Times :
        /\ now' = t
        /\ tabs' = [tabs EXCEPT
                      !.mgrs[i] = HandleWebSocketMessage(Begin(@), Head(tabs.inbox[i]), t),
                      !.inbox[i] = Tail(@)]
    /\ UNCHANGED <<pmVars, mgrVars, regVars, srvVars>>

\* ================================================================ specifications
\* One PlayerModule; the manager is left as constructed
Init ==
    /\ now = 0
    /\ InitPlayer
    /\ env = Page(FALSE, "example.com", TRUE, TRUE, TRUE, TRUE)
    /\ mgr = NewManager(env)
    /\ mgrOp = MOp("constructor", "-", "-", EmptyObj)
    /\ reg = NewRegistry
    /\ srv = ServerDown
    /\ tabs = NoTabs

\* One PlayerModule under every method modelled above
NextPlayer ==
    \/ CreateSprite
    \/ DoTakeDamage
    \/ DoHeal
    \/ DoUpdate
    \/ DoSetState
    \/ AddExpCall
    \/ AddExpLoop
    \/ AddExpLevelUp
    \/ AddExpReturn

SpecPlayer == Init /\ [][NextPlayer]_vars

\* The same entity without the per-frame update (which touches none of
\* level, exp, nextLevelExp); the loop of addExp runs to its end once begun.
NextLevelling ==
    \/ DoTakeDamage
    \/ DoHeal
    \/ DoSetState
    \/ AddExpCall
    \/ AddExpLoop
    \/ AddExpLevelUp
    \/ AddExpReturn

SpecLevelling == Init /\ [][NextLevelling]_vars

FairSpecLevelling ==
    SpecLevelling /\ WF_vars(AddExpLoop) /\ WF_vars(AddExpLevelUp) /\ WF_vars(AddExpReturn)

\* The entity that mirrors a remote player: the states of its peer are
\* applied to it between the calls of the game
NextMirror ==
    \/ DoTakeDamage
    \/ DoHeal
    \/ HandleRemotePlayerUpdated
    \/ AddExpCall
    \/ AddExpLoop
    \/ AddExpLevelUp
    \/ AddExpReturn

SpecMirror == Init /\ [][NextMirror]_vars

\* The same entity under the calls of a fight only: create, takeDamage,
\* heal, the per-frame update and addExp; no state arrives from a peer.
NextCombat ==
    \/ CreateSprite
    \/ DoTakeDamage
    \/ DoHeal
    \/ DoUpdate
    \/ AddExpCall
    \/ AddExpLoop
    \/ AddExpLevelUp
    \/ AddExpReturn

SpecCombat == Init /\ [][NextCombat]_vars

\* An attacker under autoAttack against the targets above, with the calls
\* that change what autoAttack reads: the per-frame update (cooldown),
\* takeDamage and heal (hp, death).
InitDuel ==
    /\ now = 0
    /\ InitAttacker
    /\ env = Page(FALSE, "example.com", TRUE, TRUE, TRUE, TRUE)
    /\ mgr = NewManager(env)
    /\ mgrOp = MOp("constructor", "-", "-", EmptyObj)
    /\ reg = NewRegistry
    /\ srv = ServerDown
    /\ tabs = NoTabs

NextDuel ==
    \/ CreateSprite
    \/ DoUpdate
    \/ DoTakeDamage
    \/ DoHeal
    \/ DoAutoAttack

SpecDuel == InitDuel /\ [][NextDuel]_vars

\* Two entities under checkCollision and resolveCollision
InitCollision ==
    /\ now = 0
    /\ InitCollider
    /\ env = Page(FALSE, "example.com", TRUE, TRUE, TRUE, TRUE)
    /\ mgr = NewManager(env)
    /\ mgrOp = MOp("constructor", "-", "-", EmptyObj)
    /\ reg = NewRegistry
    /\ srv = ServerDown
    /\ tabs = NoTabs

NextCollision == DoResolveCollision

SpecCollision == InitCollision /\ [][NextCollision]_vars

\* One MultiplayerManager in its page; the PlayerModule is left as constructed
InitMgr ==
    /\ now = 0
    /\ InitManager
    /\ reg = NewRegistry
    /\ srv = ServerDown
    /\ tabs = NoTabs
    /\ pm = NewPlayerModule(EmptyObj, 0)
    /\ pc = "idle"
    /\ pmOp = Op("constructor", EmptyObj)
    /\ onlyDH = TRUE

NextManager ==
    \/ DoInit
    \/ HeartbeatFires
    \/ WsOpens
    \/ WsErrors
    \/ WsCloses
    \/ TimerFires
    \/ WsMessageArrives
    \/ BcMessageArrives
    \/ DoUpdateLocalPlayer
    \/ DoBroadcastState
    \/ DoDisconnect

SpecManager == InitMgr /\ [][NextManager]_vars

\* The manager's event emitter alone: on, off and emit in any order
InitEvents ==
    /\ now = 0
    /\ env = Page(FALSE, "example.com", TRUE, TRUE, TRUE, TRUE)
    /\ mgr = NewManager(env)
    /\ mgrOp = MOp("constructor", "-", "-", EmptyObj)
    /\ reg = NewRegistry
    /\ srv = ServerDown
    /\ tabs = NoTabs
    /\ pm = NewPlayerModule(EmptyObj, 0)
    /\ pc = "idle"
    /\ pmOp = Op("constructor", EmptyObj)
    /\ onlyDH = TRUE

NextEvents ==
    \/ DoOn
    \/ DoOff
    \/ DoEmit

SpecEvents == InitEvents /\ [][NextEvents]_vars

\* The same manager with the callbacks the page keeps scheduling: the
\* heartbeat interval while it is set, and the game loop, which records and
\* publishes the local state every frame.
FairSpecManager ==
    SpecManager /\ WF_vars(HeartbeatFires) /\ WF_vars(DoUpdateLocalPlayer)
                /\ WF_vars(DoBroadcastState)

\* One PlayerRegistry whose entities are registered, damaged and updated
InitRegistry ==
    /\ now = 0
    /\ reg = NewRegistry
    /\ srv = ServerDown
    /\ tabs = NoTabs
    /\ env = Page(FALSE, "example.com", TRUE, TRUE, TRUE, TRUE)
    /\ mgr = NewManager(env)
    /\ mgrOp = MOp("constructor", "-", "-", EmptyObj)
    /\ pm = NewPlayerModule(EmptyObj, 0)
    /\ pc = "idle"
    /\ pmOp = Op("constructor", EmptyObj)
    /\ onlyDH = TRUE

NextRegistry ==
    \/ DoRegister
    \/ DoUnregister
    \/ DoRegisteredTakeDamage
    \/ DoUpdateAll
    \/ DoGet

SpecRegistry == InitRegistry /\ [][NextRegistry]_vars

\* the game loop calls updateAll in every frame
FairSpecRegistry == SpecRegistry /\ WF_vars(DoUpdateAll)

\* The registry of a scene that mirrors remote players
NextRoster ==
    \/ DoRegister
    \/ DoRegisteredTakeDamage
    \/ DoRegisteredSetState
    \/ DoUpdateAll

SpecRoster == InitRegistry /\ [][NextRoster]_vars

\* The relay server and up to three sockets; the runtime may or may not
\* define the global WebSocket
InitRelay ==
    /\ now = 0
    /\ \E webSocket \in BOOLEAN : srv = NewServer(webSocket)
    /\ tabs = NoTabs
    /\ reg = NewRegistry
    /\ env = Page(FALSE, "example.com", TRUE, TRUE, TRUE, TRUE)
    /\ mgr = NewManager(env)
    /\ mgrOp = MOp("constructor", "-", "-", EmptyObj)
    /\ pm = NewPlayerModule(EmptyObj, 0)
    /\ pc = "idle"
    /\ pmOp = Op("constructor", EmptyObj)
    /\ onlyDH = TRUE

NextRelay ==
    \/ SrvConnection
    \/ SrvMessage
    \/ SrvClosing
    \/ SrvClose
    \/ SrvSweep

SpecRelay == InitRelay /\ [][NextRelay]_vars

\* One MultiplayerManager that receives well-formed and malformed messages
\* on its relay socket or on its channel
\* Two tabs on one BroadcastChannel
InitTabs ==
    /\ now = 0
    /\ tabs = NoTabs
    /\ env = TabPage
    /\ mgr = NewManager(env)
    /\ mgrOp = MOp("constructor", "-", "-", EmptyObj)
    /\ reg = NewRegistry
    /\ srv = ServerDown
    /\ pm = NewPlayerModule(EmptyObj, 0)
    /\ pc = "idle"
    /\ pmOp = Op("constructor", EmptyObj)
    /\ onlyDH = TRUE

NextTabs ==
    \/ \E i \in Tabs : TabOpens(i)
    \/ \E i \in Tabs : TabInit(i)
    \/ \E i \in Tabs : TabHeartbeat(i)
    \/ \E i \in Tabs : TabBroadcastState(i)
    \/ \E i \in Tabs : TabReceives(i)

SpecTabs == InitTabs /\ [][NextTabs]_vars

\* The channel delivers what is queued, the heartbeat interval keeps firing
\* and the game loop keeps publishing
FairSpecTabs ==
    SpecTabs /\ \A i \in Tabs : /\ WF_vars(TabReceives(i))
                                /\ WF_vars(TabHeartbeat(i))
                                /\ WF_vars(TabBroadcastState(i))

\* The relay whose interval timer keeps firing
NextSweeping ==
    \/ NextRelay
    \/ SrvSweepLate

SpecSweeping == InitRelay /\ [][NextSweeping]_vars

FairSpecSweeping == SpecSweeping /\ WF_vars(SrvSweep) /\ WF_vars(SrvSweepLate)

\* The relay with a client that announces itself a second time; sockets
\* close without a closing handshake in between
NextRejoin ==
    \/ SrvConnection
    \/ SrvMessage
    \/ SrvRejoin
    \/ SrvClose
    \/ SrvSweep

SpecRejoin == InitRelay /\ [][NextRejoin]_vars

\* The relay with a client that sends messages naming another player
NextForged ==
    \/ SrvConnection
    \/ SrvMessage
    \/ SrvForged
    \/ SrvClose

SpecForged == InitRelay /\ [][NextForged]_vars

\* Two clients join the relay
InitSession ==
    /\ now = 0
    /\ \E webSocket \in BOOLEAN : srv = NewServer(webSocket)
    /\ tabs = NoClients
    /\ reg = NewRegistry
    /\ env = RelayPage
    /\ mgr = NewManager(env)
    /\ mgrOp = MOp("constructor", "-", "-", EmptyObj)
    /\ pm = NewPlayerModule(EmptyObj, 0)
    /\ pc = "idle"
    /\ pmOp = Op("constructor", EmptyObj)
    /\ onlyDH = TRUE

NextSession ==
    \/ \E i \in Tabs : ClientConstructs(i)
    \/ \E i \in Tabs : ClientAccepted(i)
    \/ \E i \in Tabs : ClientOpens(i)
    \/ \E i \in Tabs : ClientInit(i)
    \/ \E i \in Tabs : RelayServes(i)
    \/ \E i \in Tabs : ClientReceives(i)

SpecSession == InitSession /\ [][NextSession]_vars

NextInbound ==
    \/ DoInit
    \/ WsOpens
    \/ WsMessageArrives
    \/ BcMessageArrives
    \/ WsMalformedArrives
    \/ BcMalformedArrives

SpecInbound == InitMgr /\ [][NextInbound]_vars

\* ================================================================ claims
InBounds(p) == 0 <= p.hp /\ p.hp <= p.maxHP

\* C1: after every call in a sequence of takeDamage and heal calls with
\* non-negative amounts on a PlayerModule, 0 <= stats.hp <= stats.maxHP.
C1_HpWithinBounds ==
    (onlyDH /\ pmOp.name \in {"takeDamage", "heal"}) => InBounds(pm)

\* C2: once isDead is true it stays true under heal, takeDamage, addExp
\* and update; heal on a dead entity does not revive it.
C2_DeadStaysDead ==
    [][(pm.isDead /\ pmOp'.name \in {"heal", "takeDamage", "addExp", "update"})
          => pm'.isDead]_vars

\* C2 witness: heal was called on an entity that is dead and it stayed dead
C2_Witness == pm.isDead /\ pm.hp = 0 /\ pmOp.name = "heal"

\* C3: addExp terminates for every non-negative amount in every reachable
\* entity state, and on return exp < nextLevelExp.
C3_AddExpTerminates ==
    /\ [](pmOp.name = "addExp" /\ pc = "idle" => pm.exp < pm.nextLevelExp)
    /\ ((pc = "addExp") ~> (pc = "idle"))

OtherFields(fs) == (DOMAIN pm) \ fs

\* C4 (as stated): setState writes only the fields present in the partial:
\* an empty partial leaves every field unchanged, a partial holding only hp
\* changes only stats.hp.
C4_SetStateWritesOnlyGiven ==
    [][pmOp'.name = "setState" =>
          /\ (DOMAIN pmOp'.state = {} => pm' = pm)
          /\ (DOMAIN pmOp'.state = {"hp"} =>
                 \A f \in OtherFields({"hp"}) : pm'[f] = pm[f])]_vars

\* C4 (amended): setState writes the fields present in the partial and
\* lastUpdated, and nothing else.
C4_SetStateFrame ==
    [][pmOp'.name = "setState" =>
          /\ (DOMAIN pmOp'.state = {} =>
                 \A f \in OtherFields({"lastUpdated"}) : pm'[f] = pm[f])
          /\ (DOMAIN pmOp'.state = {"hp"} =>
                 /\ pm'.hp = pmOp'.state.hp
                 /\ \A f \in OtherFields({"hp", "lastUpdated"}) : pm'[f] = pm[f])]_vars

\* C4 witness: setState({hp: 40}) was applied at a later instant than the
\* construction, to an entity away from its defaults
C4_Witness ==
    /\ pmOp.name = "setState"
    /\ DOMAIN pmOp.state = {"hp"}
    /\ pm.hp = 40
    /\ pm.lastUpdated > pm.createdAt
    /\ pm.isDead

PeerEvents == {"remotePlayerAdded", "remotePlayerUpdated", "playerRemoved"}
Emitted(m) == {m.emitted[i].event : i \in 1..Len(m.emitted)}

\* C5: in local-broadcast mode a channel message whose fromPlayerId is the
\* receiver's own playerId, whatever its type, emits none of
\* remotePlayerAdded, remotePlayerUpdated, playerRemoved and leaves the
\* player map unchanged.
C5_OwnMessagesIgnored ==
    [][(mgrOp'.name = "bcMessage" /\ mgrOp'.id = mgr.playerId) =>
          /\ mgr'.players = mgr.players
          /\ Emitted(mgr') \cap PeerEvents = {}]_vars

\* C5 witness: the manager's own playerLeft came back on the channel while
\* its own entry and a peer's are in the map
C5_Witness ==
    /\ mgrOp.name = "bcMessage"
    /\ mgrOp.id = mgr.playerId
    /\ mgrOp.type = "playerLeft"
    /\ mgr.bc
    /\ DOMAIN mgr.players = AllIds

\* C6: from the return of init() until disconnect(), the player map holds
\* the entry of the manager's own playerId with isLocal = true, whatever
\* inbound messages arrive over either transport.
C6_LocalEntryKept ==
    (mgr.inited /\ ~mgr.disconnected) =>
        /\ mgr.playerId \in DOMAIN mgr.players
        /\ mgr.players[mgr.playerId].isLocal = TRUE

\* C7: every entry of the player map whose key differs from the manager's
\* own playerId has isLocal = false, whatever fields the payloads of join,
\* players-list and state-update messages carry.
C7_RemoteEntriesNotLocal ==
    \A id \in (DOMAIN mgr.players) \ {mgr.playerId} : mgr.players[id].isLocal = FALSE

\* C8: if every relay connection attempt closes without opening, the manager
\* makes the initial attempt plus at most maxReconnectAttempts retries, then
\* sets up the BroadcastChannel, and never creates another WebSocket.
C8_BoundedRetriesThenFallback ==
    ~mgr.everOpened =>
        /\ mgr.unopened <= 1 + MaxReconnectAttempts
        /\ mgr.fellBack =>
              /\ mgr.unopened = 1 + MaxReconnectAttempts
              /\ ~mgr.timer
              /\ mgr.sock = "closed"
              /\ (~mgr.disconnected /\ env.useLocalBroadcast /\ env.bcSupported) => mgr.bc

\* C8 witness: six sockets closed unopened and the manager is on the channel
C8_Witness ==
    /\ ~mgr.everOpened
    /\ mgr.fellBack
    /\ mgr.unopened = 1 + MaxReconnectAttempts
    /\ mgr.reconnectAttempts = MaxReconnectAttempts
    /\ mgr.bc

\* C9 (as stated): a manager constructed without a wsUrl option never
\* attempts a WebSocket connection, goes directly to the BroadcastChannel,
\* and init() returns its own playerId.
C9_NoUrlNoSocket ==
    ~env.optWsUrl =>
        /\ ~mgr.wsAttempted
        /\ mgr.sock = "none"
        /\ mgr.inited => mgr.initResult = mgr.playerId

\* C9 (amended): a manager constructed without a wsUrl option on a page
\* whose hostname is neither localhost nor 127.0.0.1 never attempts a
\* WebSocket connection: the constructor goes directly to the
\* BroadcastChannel, and init() returns its own playerId.
C9_NoRelayEndpoint ==
    (~env.optWsUrl /\ env.hostname \notin LocalHosts) =>
        /\ ~mgr.wsAttempted
        /\ mgr.sock = "none"
        /\ ~mgr.ws
        /\ ~mgr.timer
        /\ ~mgr.disconnected => (mgr.bc <=> (env.useLocalBroadcast /\ env.bcSupported))
        /\ mgr.inited => mgr.initResult = mgr.playerId

\* C9 witness: init() has returned on a public host with no wsUrl option
C9_Witness ==
    /\ ~env.optWsUrl
    /\ env.hostname = "example.com"
    /\ mgr.inited
    /\ mgr.initResult = PlayerId
    /\ mgr.bc
    /\ ~mgr.wsAttempted

PublishedState == [hp |-> 10, x |-> 5]

Heard(id) == mgrOp.name \in {"bcMessage", "wsMessage"} /\ mgrOp.id = id

\* C11: in a running manager on the BroadcastChannel (no relay, disconnect()
\* not called), a remote entry that hears nothing from its peer any more (no
\* state update, no heartbeat, no departure notice) is eventually removed
\* from the player map.
C11_SilentPeerEvicted ==
    \A id \in RemoteIds :
        (id \in DOMAIN mgr.players /\ mgr.wsUrl = "null" /\ ~mgr.disconnected)
            ~> (id \notin DOMAIN mgr.players \/ Heard(id) \/ mgr.disconnected)

\* an inbound state update: stateUpdate on the channel, remotePlayerUpdated on the relay
IsStateUpdate(op) ==
    \/ op.name = "bcMessage" /\ op.type = "stateUpdate"
    \/ op.name = "wsMessage" /\ op.type = "remotePlayerUpdated"

\* C12: a state update for an id that is not in the player map, over either
\* transport, leaves the map unchanged and emits neither remotePlayerUpdated
\* nor remotePlayerAdded.
C12_UnknownIdUpdateDropped ==
    [][(IsStateUpdate(mgrOp') /\ mgrOp'.id \notin DOMAIN mgr.players) =>
          /\ mgr'.players = mgr.players
          /\ Emitted(mgr') \cap {"remotePlayerUpdated", "remotePlayerAdded"} = {}]_vars

\* C12 witness: after init(), a state update from p1 was processed while p1
\* has no entry
C12_Witness ==
    /\ mgr.inited
    /\ IsStateUpdate(mgrOp)
    /\ mgrOp.id = "p1"
    /\ "p1" \notin DOMAIN mgr.players
    /\ DOMAIN mgr.players = {PlayerId}

\* an inbound join announcement: playerJoined on the channel, remotePlayerAdded
\* or playersList on the relay
IsJoin(op) ==
    \/ op.name = "bcMessage" /\ op.type = "playerJoined"
    \/ op.name = "wsMessage" /\ op.type \in {"remotePlayerAdded", "playersList"}

\* how many times the handler that just ran emitted event ev for id
CountEmitted(m, ev, id) ==
    Cardinality({ i \in 1..Len(m.emitted) : m.emitted[i] = [event |-> ev, id |-> id] })

\* C13: a join announcement for an id already in the player map keeps the
\* entry for that id and emits no remotePlayerAdded; remotePlayerAdded is
\* emitted exactly once when a remote id enters the map and at no other time.
C13_JoinIdempotent ==
    [][\A id \in RemoteIds :
          /\ (IsJoin(mgrOp') /\ id \in DOMAIN mgr.players) => id \in DOMAIN mgr'.players
          /\ CountEmitted(mgr', "remotePlayerAdded", id) =
                IF id \notin DOMAIN mgr.players /\ id \in DOMAIN mgr'.players
                THEN 1 ELSE 0]_vars

\* C13 witness: a join announcement naming p1 was processed while p1 already
\* had its entry: the entry is there and nothing was emitted for it
C13_Witness ==
    /\ IsJoin(mgrOp)
    /\ mgrOp.id = "p1"
    /\ "p1" \in DOMAIN mgr.players
    /\ CountEmitted(mgr, "remotePlayerAdded", "p1") = 0

\* an inbound departure notice: playerLeft on the channel, playerRemoved on the relay
IsDeparture(op) ==
    \/ op.name = "bcMessage" /\ op.type = "playerLeft"
    \/ op.name = "wsMessage" /\ op.type = "playerRemoved"

\* C14: a departure notice for a known remote id removes exactly that id from
\* the player map and emits playerRemoved for it once and nothing else; a
\* departure notice for an id not in the map changes nothing and emits nothing.
C14_DepartureRemovesOnce ==
    [][IsDeparture(mgrOp') =>
          /\ (mgrOp'.id \in RemoteIds /\ mgrOp'.id \in DOMAIN mgr.players) =>
                /\ mgr'.players = PDel(mgr.players, mgrOp'.id)
                /\ mgr'.emitted = <<[event |-> "playerRemoved", id |-> mgrOp'.id]>>
          /\ (mgrOp'.id \notin DOMAIN mgr.players) =>
                /\ mgr'.players = mgr.players
                /\ mgr'.emitted = <<>>]_vars

\* C14 witness: after init(), the departure notice of p1 removed its entry
\* and playerRemoved was emitted for it
C14_Witness ==
    /\ mgr.inited
    /\ IsDeparture(mgrOp)
    /\ mgrOp.id = "p1"
    /\ DOMAIN mgr.players = {PlayerId}
    /\ CountEmitted(mgr, "playerRemoved", "p1") = 1

\* C15: an inbound heartbeat sets lastUpdate of the sender's existing entry
\* to the current time and changes nothing else: the map has the same ids,
\* every other field of every entry is unchanged, no event is emitted, and
\* a heartbeat from an unknown sender creates no entry.
C15_HeartbeatRefreshesOnly ==
    [][(mgrOp'.name = "bcMessage" /\ mgrOp'.type = "heartbeat") =>
          /\ DOMAIN mgr'.players = DOMAIN mgr.players
          /\ \A id \in DOMAIN mgr.players :
                /\ DOMAIN mgr'.players[id] = DOMAIN mgr.players[id]
                /\ \A f \in (DOMAIN mgr.players[id]) \ {"lastUpdate"} :
                      mgr'.players[id][f] = mgr.players[id][f]
                /\ id # mgrOp'.id => mgr'.players[id] = mgr.players[id]
          /\ (mgrOp'.id \in RemoteIds /\ mgrOp'.id \in DOMAIN mgr.players) =>
                mgr'.players[mgrOp'.id].lastUpdate = now'
          /\ mgr'.emitted = <<>>]_vars

\* C15 witness: the heartbeat of p1 was processed at an instant after 0 and
\* its entry, whose hp a state update had set to 40, carries that instant
C15_Witness ==
    /\ mgrOp.name = "bcMessage"
    /\ mgrOp.type = "heartbeat"
    /\ mgrOp.id = "p1"
    /\ "p1" \in DOMAIN mgr.players
    /\ mgr.players["p1"].hp = 40
    /\ mgr.players["p1"].lastUpdate = now
    /\ now > 0

\* the handlers registered for ev and not removed, in registration order
Registered(m, ev) == IF ev \in DOMAIN m.listeners THEN m.listeners[ev] ELSE <<>>

\* C16: emit(event) invokes every handler registered for the event with on()
\* and not removed with off(), once each, in registration order, whether or
\* not a handler throws.
C16_EmitCallsAllInOrder ==
    [][mgrOp'.name = "emit" => mgr'.called = Registered(mgr, mgrOp'.type)]_vars

\* the frames and envelopes of the given type the running handler sent
SentOfType(m, type) == { i \in 1..Len(m.sent) : m.sent[i].type = type }

\* C17: disconnect() can be called in any transport state and any number of
\* times; every call leaves heartbeatInterval = null, ws = null,
\* broadcastChannel = null and connected = false, and a call made after an
\* earlier one sends no departure notice.
C17_DisconnectIdempotent ==
    [][mgrOp'.name = "disconnect" =>
          /\ ~mgr'.heartbeat /\ ~mgr'.ws /\ ~mgr'.bc /\ ~mgr'.connected
          /\ mgr.disconnected => SentOfType(mgr', "playerLeft") = {}]_vars

\* C18: after disconnect() has returned (and init() is not called again), the
\* manager creates no WebSocket, sends no playerJoined, stateUpdate or
\* heartbeat message and emits no heartbeat event, whatever is delivered
\* afterwards, the close event of the socket disconnect() closed included.
C18_SilentAfterDisconnect ==
    [][(mgr.disconnected /\ ~mgr.heartbeat /\ mgrOp'.name # "init") =>
          /\ ~(mgr'.ws /\ ~mgr.ws)
          /\ \A type \in {"playerJoined", "stateUpdate", "heartbeat"} :
                SentOfType(mgr', type) = {}
          /\ CountEmitted(mgr', "heartbeat", mgr.playerId) = 0]_vars

\* dead as autoAttack tests it on the attacker
Dead(p) == p.isDead \/ p.hp <= 0

\* C19: autoAttack(target) returns false and changes neither entity, the
\* attacker's attackCooldown included, whenever the attacker is dead, the
\* target is dead, or attackCooldown > 0.
C19_AutoAttackNoOp ==
    [][(pmOp'.name = "autoAttack"
          /\ (Dead(pm) \/ pmOp'.state.target.isDead \/ pm.attackCooldown > 0)) =>
          /\ pmOp'.state.result = FALSE
          /\ pm' = pm
          /\ pmOp'.state.after = pmOp'.state.target]_vars

\* alive as autoAttack tests it on the attacker
Alive(p) == ~p.isDead /\ p.hp > 0

\* C20: when attacker and target are alive and attackCooldown = 0, an
\* autoAttack on a target at most attackRange away lowers the target's hp by
\* exactly attackDamage (clamped at 0), sets attackCooldown to attackRate and
\* returns true; on a target further away it returns false and leaves
\* attackCooldown and the target unchanged.
C20_AutoAttackHits ==
    [][(pmOp'.name = "autoAttack"
          /\ Alive(pm) /\ Alive(pmOp'.state.target) /\ pm.attackCooldown = 0) =>
          LET target == pmOp'.state.target
              after == pmOp'.state.after
              dmg == AttackDamageValue(pm.attackDamage)
          IN IF InRange(pm, target)
             THEN /\ after.hp = (IF target.hp - dmg < 0 THEN 0 ELSE target.hp - dmg)
                  /\ pm'.attackCooldown = pm.attackRate
                  /\ pmOp'.state.result = TRUE
             ELSE /\ pmOp'.state.result = FALSE
                  /\ pm'.attackCooldown = pm.attackCooldown
                  /\ after = target]_vars

\* a hit that took the target's last hit points: its hp is clamped at 0
C20_Witness ==
    /\ pmOp.name = "autoAttack"
    /\ pmOp.state.result = TRUE
    /\ Alive(pmOp.state.target)
    /\ pmOp.state.target.hp < AttackDamageValue(pm.attackDamage)
    /\ pmOp.state.after.hp = 0
    /\ pm.attackCooldown = pm.attackRate

\* the squared distance of two centres given in hundredths of a pixel
Dist2(a, b) == ((b.x - a.x) * (b.x - a.x)) + ((b.y - a.y) * (b.y - a.y))

\* C21: for two entities of radius 30 with centres (0,0) and (50,0),
\* checkCollision is true, and after one resolveCollision call with the
\* default push factor the distance between the two centres is at least 60,
\* whatever the isLocal flags of the two entities.
C21_CollisionResolved ==
    [][(/\ pmOp'.name = "resolveCollision"
        /\ pm.radius = 30 /\ pmOp'.state.other.radius = 30
        /\ pm.x = 0 /\ pm.y = 0
        /\ pmOp'.state.other.x = 50 /\ pmOp'.state.other.y = 0
        /\ pmOp'.state.pushForce = DefaultPushForce) =>
          /\ pmOp'.state.collides
          /\ Dist2(pmOp'.state.after.self, pmOp'.state.after.other)
                >= (60 * Hundredths) * (60 * Hundredths)]_vars

\* C22: a fresh entity (level 1, exp 0, nextLevelExp 50) that receives
\* addExp(120) ends with level = 2, exp = 70 and nextLevelExp = 100.
C22_AddExp120 ==
    [][(/\ pc = "addExp" /\ pc' = "idle"
        /\ pmOp.state.amount = 120
        /\ pmOp.state.level = 1 /\ pmOp.state.exp = 0 /\ pmOp.state.nextLevelExp = 50) =>
          /\ pm'.level = 2
          /\ pm'.exp = 70
          /\ pm'.nextLevelExp = 100]_vars

\* addExp(120) on a fresh entity has returned, after one levelUp
C22_Witness ==
    /\ pc = "idle"
    /\ pmOp.name = "addExp"
    /\ pmOp.state.amount = 120
    /\ pmOp.state.level = 1 /\ pmOp.state.exp = 0 /\ pmOp.state.nextLevelExp = 50
    /\ pm.level = 2
    /\ pm.attackDamage.ups = 1

\* C23: a registered entity that has died is eventually removed from the
\* PlayerRegistry by repeated updateAll calls: get(id) no longer returns it
\* and getAll() no longer contains it.
C23_DeadEntityUnregistered ==
    \A id \in RegIds :
        (Get(reg.players, id) /\ reg.players[id].isDead /\ reg.players[id].hasSprite)
            ~> (~Get(reg.players, id) /\ id \notin GetAll(reg.players))

\* the sockets that are OPEN
OpenConns(s) == {c \in Conns : s.conns[c].state = "open"}

\* the sockets the relay sent a message of this type about this player to
Receivers(s, type, id) ==
    {m.to : m \in {x \in s.sent : x.msg.type = type /\ x.msg.playerId = id}}

\* C24: on a playerJoined message from connection c with id p, the relay
\* stores an initial record for p, sends a playersList message to c and to no
\* other connection, and sends remotePlayerAdded for p to every other open
\* connection and not to c.
C24_JoinAnnounced ==
    [][srv'.op.name = "playerJoined" =>
          LET c == srv'.op.conn
              p == srv'.op.data.playerId
          IN /\ p \in DOMAIN srv'.players
             /\ srv'.players[p] = JoinRecord(srv'.op.data, srv'.clock)
             /\ {m.to : m \in {x \in srv'.sent : x.msg.type = "playersList"}} = {c}
             /\ Receivers(srv', "remotePlayerAdded", p) = OpenConns(srv) \ {c}]_vars

\* C25: on a stateUpdate from a joined connection the relay merges the given
\* fields into that player's stored record (fields absent from the update
\* keep their stored values) and sends remotePlayerUpdated to every other
\* open connection and never back to the sender; a stateUpdate from a
\* connection that has not joined changes nothing and is not rebroadcast.
\* Stated for a relay whose runtime defines WebSocket, where broadcast
\* does not throw.
C25_UpdateMergedAndRelayed ==
    [][(srv'.op.name = "stateUpdate" /\ srv.webSocket) =>
          LET c == srv'.op.conn
              p == srv.conns[c].playerId
              state == srv'.op.data.state
          IN IF p = "null"
             THEN srv'.players = srv.players /\ srv'.sent = {}
             ELSE /\ p \in DOMAIN srv'.players
                  /\ \A f \in DOMAIN state : srv'.players[p][f] = state[f]
                  /\ \A f \in (DOMAIN srv.players[p]) \ (DOMAIN state \cup {"lastUpdate"}) :
                        srv'.players[p][f] = srv.players[p][f]
                  /\ \A q \in (DOMAIN srv.players) \ {p} : srv'.players[q] = srv.players[q]
                  /\ Receivers(srv', "remotePlayerUpdated", p) = OpenConns(srv) \ {c}]_vars

\* C26: when the socket of a joined connection closes, the relay deletes
\* that player's record and every remaining open connection receives a
\* playerRemoved for that id.
C26_CloseAnnounced ==
    [][(srv'.op.name = "close" /\ srv.conns[srv'.op.conn].playerId # "null") =>
          LET c == srv'.op.conn
              p == srv.conns[c].playerId
          IN /\ p \notin DOMAIN srv'.players
             /\ Receivers(srv', "playerRemoved", p) = OpenConns(srv) \ {c}]_vars

\* whether the sweep that runs at the instant t finds the record inactive
Inactive(player, t) ==
    Has(player, "lastUpdate") /\ (t - player.lastUpdate) > InactivityThreshold

\* C27: each run of the relay's periodic sweep removes every stored player
\* whose last-update timestamp is older than the inactivity threshold and
\* broadcasts playerRemoved for each removed id; it removes no player whose
\* last update is within the threshold.
C27_SweepEvictsInactive ==
    [][srv'.op.name = "sweep" =>
          \A id \in DOMAIN srv.players :
              IF Inactive(srv.players[id], srv'.clock)
              THEN /\ id \notin DOMAIN srv'.players
                   /\ Receivers(srv', "playerRemoved", id) = OpenConns(srv)
              ELSE /\ id \in DOMAIN srv'.players
                   /\ Receivers(srv', "playerRemoved", id) = {}]_vars

\* C28: a malformed inbound message (unparseable JSON on the relay socket,
\* or a message or channel envelope with missing fields) leaves the
\* manager's player map unchanged and emits no event.
C28_MalformedDropped ==
    [][mgrOp'.name \in {"wsMalformed", "bcMalformed"} =>
          /\ mgr'.players = mgr.players
          /\ mgr'.emitted = <<>>]_vars

\* C29: once two managers on the same BroadcastChannel have both called
\* init(), eventually each one's getRemotePlayers() contains the other's id.
BothInited == \A i \in Tabs : i \in DOMAIN tabs.mgrs /\ tabs.mgrs[i].inited

EachSeesTheOther ==
    \A i \in Tabs : \A j \in Tabs \ {i} :
        /\ i \in DOMAIN tabs.mgrs
        /\ TabId[j] \in GetRemotePlayers(tabs.mgrs[i])

C29_EachSeesTheOther == BothInited ~> EachSeesTheOther

\* C30: after every takeDamage, heal, addExp, levelUp and setState on an
\* entity, isDead is true exactly when stats.hp is 0, and no step turns
\* isDead from true back to false.
C30_DeadIffNoHp ==
    [][/\ pm'.isDead <=> pm'.hp = 0
       /\ pm.isDead => pm'.isDead]_vars

\* C31: every mutation of a PlayerModule whose hp is within [0, maxHP]
\* (takeDamage, heal, levelUp, setState with the values of a peer)
\* leaves 0 <= stats.hp <= stats.maxHP.
C31_HpStaysWithinBounds ==
    [][InBounds(pm) => InBounds(pm')]_vars

\* C32: under addExp and levelUp the level never decreases, and right after
\* every level-up nextLevelExp = 50 * level, stats.maxHP = 100 + 20 * (level - 1)
\* and stats.hp = stats.maxHP.
C32_LevelUpRecalculates ==
    [][/\ pmOp'.name = "addExp" => pm'.level >= pm.level
       /\ (pc = "levelUp" /\ pc' = "addExp") =>
             /\ pm'.nextLevelExp = 50 * pm'.level
             /\ pm'.maxHP = 100 + (20 * (pm'.level - 1))
             /\ pm'.hp = pm'.maxHP]_vars

\* levelUp has just run on an entity that had been hit
C32_Witness ==
    /\ pc = "addExp"
    /\ pmOp.name = "addExp"
    /\ pm.attackDamage.ups = 1
    /\ pm.level = pmOp.state.level + 1
    /\ pm.hp = pm.maxHP
    /\ pm.shockTimer > 0

\* C33: while the relay connection is open, init() (the join announcement),
\* the heartbeat and broadcastState each send exactly one message, over the
\* WebSocket, and post nothing on the BroadcastChannel; no handler sends
\* over both transports.
SentVia(m, via) == Len(SelectSeq(m.sent, LAMBDA s : s.via = via))

OutboundType == [init |-> "playerJoined", heartbeat |-> "heartbeat", broadcastState |-> "stateUpdate"]

C33_RelayOnlyWhileOpen ==
    [][/\ (mgr.sock = "open" /\ mgrOp'.name \in DOMAIN OutboundType) =>
             mgr'.sent = <<[via |-> "ws", type |-> OutboundType[mgrOp'.name]]>>
       /\ SentVia(mgr', "ws") = 0 \/ SentVia(mgr', "bc") = 0]_vars

\* broadcastState has just run on an initialised manager whose relay connection is open
C33_Witness ==
    /\ mgrOp.name = "broadcastState"
    /\ mgr.sock = "open"
    /\ mgr.inited
    /\ mgr.sent = <<[via |-> "ws", type |-> "stateUpdate"]>>

\* C34: once a manager that was initialised with init() has exhausted its
\* relay attempts and fallen back to the BroadcastChannel, it eventually
\* posts a playerJoined on the channel.
JoinPostedOnChannel == \E k \in DOMAIN mgr.sent : mgr.sent[k] = [via |-> "bc", type |-> "playerJoined"]

C34_FallbackAnnounced ==
    (mgr.inited /\ mgr.fellBack /\ mgr.bc) ~> (JoinPostedOnChannel \/ mgr.disconnected)

\* C35: in relay mode, once the relay has processed the playerJoined of two
\* clients and every message it sent has been delivered, each client's
\* player map contains the other client's id, whichever joined first.
BothJoinsServed == \A i \in Tabs : srv.conns[TabConn[i]].playerId = TabId[i]

AllDelivered == \A i \in Tabs : tabs.inbox[i] = <<>> /\ tabs.outbox[i] = <<>>

C35_BothJoinedSeeEachOther ==
    (BothJoinsServed /\ AllDelivered) =>
        \A i \in Tabs : \A j \in Tabs \ {i} : TabId[j] \in DOMAIN tabs.mgrs[i].players

\* C36: on the relay, between two handlers, every id in the players map is
\* the playerId bound to a connection that has not closed.
C36_RecordsHaveConnections ==
    srv.up =>
        \A id \in DOMAIN srv.players :
            \E c \in Clients(srv) : srv.conns[c].playerId = id

\* C37: a player that has joined the relay and sends neither stateUpdate nor
\* heartbeat while its socket stays open is eventually removed from the
\* players map by the inactivity sweep.
SilentConn == "c3"

\* the player of SilentConn is stored and its socket is open
SilentStored ==
    /\ srv.up
    /\ srv.conns[SilentConn].state = "open"
    /\ ConnId[SilentConn] \in DOMAIN srv.players

\* the handler that just ran was given a message of SilentConn
Spoke == srv.op.conn = SilentConn /\ srv.op.name \in {"playerJoined", "stateUpdate", "heartbeat"}

C37_SilentPlayerEvicted ==
    (SilentStored /\ ~Spoke) ~> (~SilentStored \/ Spoke)

\* C38: in every state of a PlayerRegistry reached by register, takeDamage,
\* setState (with remote records that carry isDead and no isActive) and
\* updateAll, no entity is returned by both getActive() and getDead().
C38_ActiveAndDeadDisjoint ==
    GetActive(reg.players) \cap GetDead(reg.players) = {}

\* C39: a message the relay receives on connection c (a stateUpdate,
\* whatever playerId it carries, or any other message of c) leaves the
\* stored record of every player bound to another connection as it was.
BoundElsewhere(s, c) ==
    { s.conns[d].playerId : d \in {x \in Clients(s) \ {c} : s.conns[x].playerId # "null"} }

C39_OthersRecordsUntouched ==
    [][srv'.op.name \in {"stateUpdate", "playerJoined", "heartbeat"} =>
          \A id \in BoundElsewhere(srv, srv'.op.conn) \cap DOMAIN srv.players :
              /\ id \in DOMAIN srv'.players
              /\ srv'.players[id] = srv.players[id]]_vars

\* C40: a join announcement for an id that is already in the manager's
\* player map leaves the mirrored state of that entry (x, y, hp, maxHp,
\* level, exp) as it was.
MirroredFields == {"x", "y", "hp", "maxHp", "level", "exp"}

C40_RejoinKeepsMirroredState ==
    [][\A id \in RemoteIds :
          (/\ mgrOp'.name \in {"bcMessage", "wsMessage"}
           /\ mgrOp'.type \in {"playerJoined", "remotePlayerAdded"}
           /\ mgrOp'.id = id
           /\ id \in DOMAIN mgr.players) =>
              /\ id \in DOMAIN mgr'.players
              /\ \A f \in MirroredFields : mgr'.players[id][f] = mgr.players[id][f]]_vars

====
